---- MODULE Spec2Model ----
(***************************************************************************)
(* DocuFluent: the multi-stage translation workflow                        *)
(* (src/src/docu_fluent/workflow.py, TranslationWorkflow).                 *)
(*                                                                         *)
(* Texts are sequences of tokens.  A token is a single character, or one   *)
(* of the multi-character units the code searches for as a whole: the      *)
(* code fence of three backquotes ("FENCE"), the words "json" and          *)
(* "markdownjson" that may follow it, the placeholder brackets "{{MATH_"   *)
(* and "}}", and a complete JSON document (named "J..." or "P..." and      *)
(* looked up in JsonTable).                                                *)
(***************************************************************************)
EXTENDS Integers, Sequences, FiniteSets, TLC

\* ------------------------------------------------------------------ bounds
\* Longest list of segments handed to run.
MaxSegs == 2
\* Longest evaluator response (in tokens) given to _parse_evaluation on its own.
MaxResponseLen == 4
\* How many times in a row run is called on one workflow.
MaxRuns == 2

\* How many pieces the translations given to apply_translations are made of.
MaxPieces == 3

\* How long the texts given to _is_simple_segment are.
MaxTextLen == 3

\* ------------------------------------------------------- program constants
\* @retry(stop=stop_after_attempt(3), ...) on each of the four task functions.
MaxAttempts == 3

\* ------------------------------------------------------------------- texts
Digits == {"0", "1", "2", "3", "4", "5", "6", "7", "8", "9"}
Whitespace == {" "}
\* The characters of the class in _is_simple_segment's second pattern,
\* besides the digits and the whitespace (quotes, guillemets, inverted
\* question and exclamation marks, backquote and backslash are spelled out
\* as words).
SimpleSymbols == {".", ",", "%", "-", "+", "=", "/", "(", ")", "[", "]",
                  "LAQUO", "RAQUO", "DQUOTE", "'", "!", "?", ";", ":", "IQUEST", "IEXCL", "*",
                  "&", "#", "@", "^", "_", "~", "BACKQUOTE", "|", "BACKSLASH",
                  "<", ">"}

Empty == << >>

RECURSIVE LStrip(_)
LStrip(t) == IF t /= Empty /\ Head(t) \in Whitespace THEN LStrip(Tail(t)) ELSE t

RECURSIVE RStrip(_)
RStrip(t) ==
  IF t /= Empty /\ t[Len(t)] \in Whitespace THEN RStrip(SubSeq(t, 1, Len(t) - 1)) ELSE t

\* str.strip()
Strip(t) == RStrip(LStrip(t))

\* t[i..] starts with pat
StartsAt(t, i, pat) ==
  /\ i + Len(pat) - 1 <= Len(t)
  /\ \A k \in 1..Len(pat) : t[i + k - 1] = pat[k]

\* pat in t
Contains(t, pat) == \E i \in 1..(Len(t) + 1) : StartsAt(t, i, pat)

\* position of the first occurrence of pat in t (0 when there is none)
Find(t, pat) ==
  IF Contains(t, pat)
  THEN CHOOSE i \in 1..(Len(t) + 1) :
         /\ StartsAt(t, i, pat)
         /\ \A j \in 1..(i - 1) : ~StartsAt(t, j, pat)
  ELSE 0

\* t.split(pat)[0]: the text before the first occurrence of pat, or all of t
SplitHead(t, pat) ==
  IF Find(t, pat) = 0 THEN t ELSE SubSeq(t, 1, Find(t, pat) - 1)

\* the text after the first occurrence of pat (pat occurs in t)
AfterFirst(t, pat) == SubSeq(t, Find(t, pat) + Len(pat), Len(t))

\* t.split(pat)[1], for a t that contains pat: the text between the first
\* occurrence of pat and the next one
SplitSecond(t, pat) == SplitHead(AfterFirst(t, pat), pat)

\* ------------------------------------------------------ simple segments
\* The longest run of digits of t that starts at position i.
RECURSIVE DigitRun(_, _)
DigitRun(t, i) == IF i <= Len(t) /\ t[i] \in Digits THEN 1 + DigitRun(t, i + 1) ELSE 0

\* Length of the match of \{\{MATH_\d+\}\} at position i of t (0: no match).
PlaceholderAt(t, i) ==
  IF /\ i <= Len(t)
     /\ t[i] = "{{MATH_"
     /\ DigitRun(t, i + 1) > 0
     /\ i + 1 + DigitRun(t, i + 1) <= Len(t)
     /\ t[i + 1 + DigitRun(t, i + 1)] = "}}"
  THEN DigitRun(t, i + 1) + 2
  ELSE 0

\* _is_simple_segment
IsSimple(text) ==
  LET t == Strip(text) IN
  \/ t = Empty
  \/ PlaceholderAt(t, 1) = Len(t)
  \/ \A k \in 1..Len(t) : t[k] \in Digits \cup SimpleSymbols \cup Whitespace

\* ------------------------------------------------- translator post-processing
\* re.sub(r'\{\{MATH_(\d+)\}\}', ...) of _translate_task: a placeholder that
\* is a key of the segment's math_elements is kept, any other is replaced by
\* its number.
RECURSIVE StripInvalidFrom(_, _, _)
StripInvalidFrom(t, i, math_elements) ==
  IF i > Len(t) THEN Empty
  ELSE LET n == PlaceholderAt(t, i) IN
       IF n = 0 THEN <<t[i]>> \o StripInvalidFrom(t, i + 1, math_elements)
       ELSE (IF SubSeq(t, i, i + n - 1) \in math_elements
             THEN SubSeq(t, i, i + n - 1)
             ELSE SubSeq(t, i + 1, i + n - 2))
            \o StripInvalidFrom(t, i + n, math_elements)

StripInvalidPlaceholders(t, math_elements) == StripInvalidFrom(t, 1, math_elements)

\* ------------------------------------------------------------------- JSON
\* A JSON value is [t |-> its type, v |-> its content]: an int n, a float
\* between n and n+1 (n >= 0), a string (a text), null, a list, or an object
\* (a function from its keys to values).
JInt(n) == [t |-> "int", v |-> n]
JFloat(n) == [t |-> "float", v |-> n]
JStr(s) == [t |-> "str", v |-> s]
JNull == [t |-> "null", v |-> 0]
JList == [t |-> "list", v |-> 0]
JObj(f) == [t |-> "obj", v |-> f]

ScoreKeys == {"accuracy", "fluency", "consistency", "terminology", "completeness"}

\* {"accuracy": a, ..., "suggestions": s} with every score the value x
Scores(x, s) ==
  JObj([k \in ScoreKeys \cup {"suggestions"} |-> IF k = "suggestions" THEN JStr(s) ELSE x])

\* The JSON documents a response may hold, by the token that stands for them.
JsonTable ==
  [ J10      |-> Scores(JInt(10), <<"g", "o", "o", "d">>),
    J7       |-> Scores(JInt(7), <<"f", "i", "x">>),
    J9       |-> Scores(JInt(9), <<"f", "i", "x">>),
    Jneg     |-> Scores(JInt(-1), <<"b", "a", "d">>),
    Jbig     |-> Scores(JInt(11), <<"g", "o", "o", "d">>),
    Jfloat   |-> Scores(JFloat(7), <<"f", "i", "x">>),
    Jnumstr  |-> Scores(JStr(<<"8">>), <<"f", "i", "x">>),
    Jword    |-> Scores(JStr(<<"h", "i", "g", "h">>), <<"f", "i", "x">>),
    Jnull    |-> Scores(JNull, <<"f", "i", "x">>),
    Jempty   |-> JObj([k \in {} |-> JNull]),
    Jacc     |-> JObj([k \in {"accuracy"} |-> JInt(5)]),
    Jlist    |-> JList,
    Jnum     |-> JInt(42),
    P79      |-> JObj([k \in {"model_a", "model_c"} |->
                        IF k = "model_a" THEN Scores(JInt(7), <<"f", "i", "x">>)
                        ELSE Scores(JInt(9), <<"g", "o", "o", "d">>)]),
    P77      |-> JObj([k \in {"model_a", "model_c"} |-> Scores(JInt(7), <<"f", "i", "x">>)]),
    P97      |-> JObj([k \in {"model_a", "model_c"} |->
                        IF k = "model_a" THEN Scores(JInt(9), <<"g", "o", "o", "d">>)
                        ELSE Scores(JInt(7), <<"f", "i", "x">>)]),
    Ponly_c  |-> JObj([k \in {"model_c"} |-> Scores(JInt(7), <<"f", "i", "x">>)]),
    Pbad     |-> JObj([k \in {"model_a", "model_c"} |-> JList]) ]

\* json.loads: [ok |-> it parsed, val |-> the value].  A text parses when,
\* apart from surrounding whitespace, it is one JSON document.
JsonLoads(text) ==
  LET t == Strip(text) IN
  IF Len(t) = 1 /\ t[1] \in DOMAIN JsonTable
  THEN [ok |-> TRUE, val |-> JsonTable[t[1]]]
  ELSE [ok |-> FALSE, val |-> JNull]

\* The value of a text of digits.
RECURSIVE DigitsValue(_)
DigitsValue(t) ==
  IF t = Empty THEN 0
  ELSE 10 * DigitsValue(SubSeq(t, 1, Len(t) - 1))
       + (CHOOSE d \in 0..9 : ToString(d) = t[Len(t)])

\* int(x): [ok |-> no exception, n |-> the integer]
IntOf(x) ==
  CASE x.t = "int" -> [ok |-> TRUE, n |-> x.v]
    [] x.t = "float" -> [ok |-> TRUE, n |-> x.v]
    [] x.t = "str" ->
         (LET s == Strip(x.v) IN
          IF s /= Empty /\ DigitRun(s, 1) = Len(s)
          THEN [ok |-> TRUE, n |-> DigitsValue(s)]
          ELSE [ok |-> FALSE, n |-> 0])
    [] OTHER -> [ok |-> FALSE, n |-> 0]

\* d.get(key, default); only called on an object
Get(d, key, default) == IF key \in DOMAIN d.v THEN d.v[key] ELSE default

\* ------------------------------------------------------ EvaluationResult
EvaluationResult(a, f, c, t, k, s) ==
  [accuracy |-> a, fluency |-> f, consistency |-> c, terminology |-> t,
   completeness |-> k, suggestions |-> s]

\* Five times the property total_score (the sum the code divides by 5.0).
\* Faulty variant: completeness is left out of the sum.
total_score_x5_of_four(e) ==
  e.accuracy + e.fluency + e.consistency + e.terminology

total_score_x5(e) ==
  e.accuracy + e.fluency + e.consistency + e.terminology + e.completeness

\* An optional EvaluationResult: None or the result.
None == << >>
Some(e) == <<e>>

\* The code-fence stripping that opens _parse_evaluation and the parsing of
\* _evaluate_comparative_task.
StripFence(text) ==
  IF Contains(text, <<"FENCE", "json">>)
    THEN Strip(SplitHead(SplitSecond(text, <<"FENCE", "json">>), <<"FENCE">>))
  ELSE IF Contains(text, <<"FENCE", "markdownjson">>)
    THEN Strip(SplitHead(SplitSecond(text, <<"FENCE", "markdownjson">>), <<"FENCE">>))
  ELSE IF Contains(text, <<"FENCE">>)
    THEN Strip(SplitHead(SplitSecond(text, <<"FENCE">>), <<"FENCE">>))
  ELSE text

\* EvaluationResult(accuracy=int(d.get("accuracy", 0)), ...) raises nothing:
\* d is an object and every int() succeeds.
ScoresParse(d) ==
  /\ d.t = "obj"
  /\ \A k \in ScoreKeys : IntOf(Get(d, k, JInt(0))).ok

ScoresOf(d) ==
  EvaluationResult(IntOf(Get(d, "accuracy", JInt(0))).n,
                   IntOf(Get(d, "fluency", JInt(0))).n,
                   IntOf(Get(d, "consistency", JInt(0))).n,
                   IntOf(Get(d, "terminology", JInt(0))).n,
                   IntOf(Get(d, "completeness", JInt(0))).n,
                   Get(d, "suggestions", JStr(Empty)).v)

\* _parse_evaluation
ParseEvaluation(text) ==
  LET stripped == StripFence(text)
      data == JsonLoads(stripped)
  IN IF data.ok /\ ScoresParse(data.val)
     THEN ScoresOf(data.val)
     ELSE EvaluationResult(0, 0, 0, 0, 0, stripped)

FailedText == <<"Failed">>

\* The parsing of _evaluate_comparative_task: <<eval_a, eval_c>>
ParseComparative(text) ==
  LET stripped == StripFence(text)
      data == JsonLoads(stripped)
      a == IF data.ok /\ data.val.t = "obj"
           THEN Get(data.val, "model_a", JObj([k \in {} |-> JNull])) ELSE JNull
      c == IF data.ok /\ data.val.t = "obj"
           THEN Get(data.val, "model_c", JObj([k \in {} |-> JNull])) ELSE JNull
  IN IF data.ok /\ data.val.t = "obj" /\ ScoresParse(a) /\ ScoresParse(c)
     THEN <<ScoresOf(a), ScoresOf(c)>>
     ELSE <<EvaluationResult(0, 0, 0, 0, 0, FailedText),
            EvaluationResult(0, 0, 0, 0, 0, FailedText)>>

\* -------------------------------------------------------------- documents
\* (src/src/translation_sdk/document.py)  The texts of a document are
\* sequences of single characters: SequenceMatcher compares character by
\* character, the characters of a placeholder included.
\* A paragraph is the list of its children: runs with their text and font,
\* and embedded formulas (obj names the formula, copy tells a deep copy from
\* the element the document was loaded with).
Font(bold, italic) == [bold |-> bold, italic |-> italic]

\* The font of a run that para.add_run has just made: nothing is set.
NoFont == Font("none", "none")

Run(text, font) == [kind |-> "r", text |-> text, font |-> font, obj |-> "", copy |-> FALSE]
Math(obj, copy) == [kind |-> "m", text |-> Empty, font |-> NoFont, obj |-> obj, copy |-> copy]

\* para.runs
Runs(para) == SelectSeq(para, LAMBDA c : c.kind = "r")

\* f"{{{{MATH_{math_count}}}}}"
MathKey(n) == <<"{", "{", "M", "A", "T", "H", "_", ToString(n), "}", "}">>

\* Length of the match of \{\{MATH_\d+\}\} at position i of t (0: no match).
MathTokenAt(t, i) ==
  LET d == DigitRun(t, i + 7)
  IN IF /\ StartsAt(t, i, <<"{", "{", "M", "A", "T", "H", "_">>)
        /\ d > 0
        /\ StartsAt(t, i + 7 + d, <<"}", "}">>)
     THEN d + 9
     ELSE 0

\* _extract_text_and_math: the text
RECURSIVE ExtractText(_, _)
ExtractText(para, math_count) ==
  IF para = << >> THEN Empty
  ELSE IF Head(para).kind = "r"
  THEN Head(para).text \o ExtractText(Tail(para), math_count)
  ELSE MathKey(math_count) \o ExtractText(Tail(para), math_count + 1)

\* _extract_text_and_math: math_elements, from placeholder to formula
ExtractMath(para) ==
  LET m == SelectSeq(para, LAMBDA c : c.kind = "m")
  IN [key \in {MathKey(n - 1) : n \in 1..Len(m)} |->
        m[CHOOSE n \in 1..Len(m) : MathKey(n - 1) = key].obj]

\* extract_segments, for the paragraphs of the body: the segment of the
\* paragraph at position i has the id p_<i-1>, held here as i.
ExtractSegments(d) ==
  SelectSeq([i \in 1..Len(d) |->
               [id |-> i, original_text |-> Strip(ExtractText(d[i], 0)),
                obj_ref |-> i, math_elements |-> ExtractMath(d[i])]],
            LAMBDA seg : seg.original_text /= Empty)

\* difflib.SequenceMatcher(None, a, b), for texts too short for its
\* popularity heuristic (under 200 characters).  Positions count from 0 and
\* ranges exclude their upper end, as in the library.
RECURSIVE CommonPrefix(_, _, _, _, _, _)
CommonPrefix(a, b, i, j, ahi, bhi) ==
  IF i < ahi /\ j < bhi /\ a[i + 1] = b[j + 1]
  THEN 1 + CommonPrefix(a, b, i + 1, j + 1, ahi, bhi)
  ELSE 0

\* find_longest_match: the longest block a[i:i+k] = b[j:j+k] within the
\* ranges; of the longest, the one that starts first in a, and of those the
\* one that starts first in b.
FindLongestMatch(a, b, alo, ahi, blo, bhi) ==
  LET P == (alo..(ahi - 1)) \X (blo..(bhi - 1))
      len == [p \in P |-> CommonPrefix(a, b, p[1], p[2], ahi, bhi)]
      best == IF P = {} THEN 0
              ELSE CHOOSE k \in {len[p] : p \in P} : \A q \in P : len[q] <= k
      i == CHOOSE x \in alo..(ahi - 1) :
             /\ \E y \in blo..(bhi - 1) : len[<<x, y>>] = best
             /\ \A w \in alo..(x - 1) : \A y \in blo..(bhi - 1) : len[<<w, y>>] < best
      j == CHOOSE y \in blo..(bhi - 1) :
             /\ len[<<i, y>>] = best
             /\ \A z \in blo..(y - 1) : len[<<i, z>>] < best
  IN IF best = 0 THEN <<alo, blo, 0>> ELSE <<i, j, best>>

\* get_matching_blocks: the longest match, then the matches to its left and
\* to its right, in order.
RECURSIVE MatchesIn(_, _, _, _, _, _)
MatchesIn(a, b, alo, ahi, blo, bhi) ==
  LET m == FindLongestMatch(a, b, alo, ahi, blo, bhi)
  IN IF m[3] = 0 THEN << >>
     ELSE (IF alo < m[1] /\ blo < m[2]
           THEN MatchesIn(a, b, alo, m[1], blo, m[2]) ELSE << >>)
          \o <<m>>
          \o (IF m[1] + m[3] < ahi /\ m[2] + m[3] < bhi
              THEN MatchesIn(a, b, m[1] + m[3], ahi, m[2] + m[3], bhi) ELSE << >>)

\* get_matching_blocks: adjacent blocks are joined
RECURSIVE Collapse(_)
Collapse(blocks) ==
  IF Len(blocks) < 2 THEN blocks
  ELSE LET x == blocks[1]
           y == blocks[2]
       IN IF x[1] + x[3] = y[1] /\ x[2] + x[3] = y[2]
          THEN Collapse(<< <<x[1], x[2], x[3] + y[3]>> >> \o SubSeq(blocks, 3, Len(blocks)))
          ELSE <<x>> \o Collapse(Tail(blocks))

\* get_matching_blocks, with the closing block of size 0
GetMatchingBlocks(a, b) ==
  Collapse(MatchesIn(a, b, 0, Len(a), 0, Len(b))) \o << <<Len(a), Len(b), 0>> >>

\* orig_text of apply_translations: the texts of the runs, one after another
RECURSIVE OrigText(_)
OrigText(runs) == IF runs = << >> THEN Empty ELSE Head(runs).text \o OrigText(Tail(runs))

\* run_map of apply_translations: for each character of orig_text its run
RECURSIVE RunMapFrom(_, _)
RunMapFrom(runs, r) ==
  IF r > Len(runs) THEN << >>
  ELSE [k \in 1..Len(runs[r].text) |-> r] \o RunMapFrom(runs, r + 1)

\* Faulty variant: the pattern has no group, and the split drops the tokens.
RECURSIVE SplitPartsWithoutTokens(_)
SplitPartsWithoutTokens(t) ==
  IF \E x \in 1..Len(t) : MathTokenAt(t, x) > 0
  THEN LET i == CHOOSE x \in 1..Len(t) :
                  /\ MathTokenAt(t, x) > 0
                  /\ \A y \in 1..(x - 1) : MathTokenAt(t, y) = 0
           n == MathTokenAt(t, i)
       IN <<SubSeq(t, 1, i - 1)>> \o SplitPartsWithoutTokens(SubSeq(t, i + n, Len(t)))
  ELSE <<t>>

\* re.split(r'(\{\{MATH_\d+\}\})', text)
RECURSIVE SplitParts(_)
SplitParts(t) ==
  IF \E x \in 1..Len(t) : MathTokenAt(t, x) > 0
  THEN LET i == CHOOSE x \in 1..Len(t) :
                  /\ MathTokenAt(t, x) > 0
                  /\ \A y \in 1..(x - 1) : MathTokenAt(t, y) = 0
           n == MathTokenAt(t, i)
       IN <<SubSeq(t, 1, i - 1), SubSeq(t, i, i + n - 1)>>
          \o SplitParts(SubSeq(t, i + n, Len(t)))
  ELSE <<t>>

\* The children appended for a stretch of translation that matches nothing:
\* a deep copy of the formula for each part that is a key of math_elements,
\* a new run for every other part that is not empty.
RECURSIVE UnmatchedParts(_, _)
UnmatchedParts(parts, math_elements) ==
  IF parts = << >> THEN << >>
  ELSE (IF Head(parts) \in DOMAIN math_elements
        THEN <<Math(math_elements[Head(parts)], TRUE)>>
        ELSE IF Head(parts) /= Empty THEN <<Run(Head(parts), NoFont)>> ELSE << >>)
       \o UnmatchedParts(Tail(parts), math_elements)

\* _copy_run_format: every attribute the source has set is copied
CopyRunFormat(source_run, target_run) ==
  [target_run EXCEPT
     !.font = [bold |-> IF source_run.font.bold /= "none"
                        THEN source_run.font.bold ELSE @.bold,
               italic |-> IF source_run.font.italic /= "none"
                          THEN source_run.font.italic ELSE @.italic]]

\* Faulty variant: a matched block becomes one run, with the format of the
\* run of its first character.
MatchedAsOneRun(orig_text, run_map, runs, a, size) ==
  IF size = 0 THEN << >>
  ELSE <<CopyRunFormat(runs[run_map[a + 1]],
                       Run(SubSeq(orig_text, a + 1, a + size), NoFont))>>

\* The runs appended for the matched block orig_text[a:a+size]: one for each
\* stretch of characters of the same original run, with that run's format.
RECURSIVE Matched(_, _, _, _, _)
Matched(orig_text, run_map, runs, a, size) ==
  IF size = 0 THEN << >>
  ELSE LET run == run_map[a + 1]
           n == CHOOSE m \in 1..size :
                  /\ \A k \in 1..m : run_map[a + k] = run
                  /\ m = size \/ run_map[a + m + 1] /= run
       IN <<CopyRunFormat(runs[run], Run(SubSeq(orig_text, a + 1, a + n), NoFont))>>
          \o Matched(orig_text, run_map, runs, a + n, size - n)

\* The body of apply_translations for a paragraph whose translation differs
\* from the original: the runs are removed (the other children stay), and
\* the translation is appended block by block.
Rebuild(para, seg, trans_text) ==
  LET runs == Runs(para)
      orig_text == OrigText(runs)
      run_map == RunMapFrom(runs, 1)
      blocks == GetMatchingBlocks(orig_text, trans_text)
      RECURSIVE Emit(_, _)
      Emit(n, last_trans_pos) ==
        IF n > Len(blocks)
        THEN (IF last_trans_pos < Len(trans_text)
              THEN UnmatchedParts(SplitParts(SubSeq(trans_text, last_trans_pos + 1,
                                                    Len(trans_text))),
                                  seg.math_elements)
              ELSE << >>)
        ELSE (IF blocks[n][2] > last_trans_pos
              THEN UnmatchedParts(SplitParts(SubSeq(trans_text, last_trans_pos + 1,
                                                    blocks[n][2])),
                                  seg.math_elements)
              ELSE << >>)
             \o Matched(orig_text, run_map, runs, blocks[n][1], blocks[n][3])
             \o Emit(n + 1, blocks[n][2] + blocks[n][3])
  IN SelectSeq(para, LAMBDA c : c.kind /= "r") \o Emit(1, 0)

\* Faulty variant: the translation is compared as it is, untrimmed.
SameTextUntrimmed(trans_text, seg) == trans_text = seg.original_text

\* trans_text.strip() == seg.original_text.strip(): the paragraph is skipped
SameText(trans_text, seg) == Strip(trans_text) = Strip(seg.original_text)

\* ---------------------------------------------------------------- inputs
Hi == <<"H", "i">>
Ni == <<"N", "i">>
Oi == <<"O", "i">>
Num42 == <<"4", "2">>

\* The original texts of the segments handed to run: one that needs
\* translation and one that is simple.
SegTexts == {Hi, Num42}

\* TranslationSegment; the id is the segment's position in the list.
Segment(i, text) == [id |-> i, original_text |-> text, math_elements |-> {}]

\* The lists of segments tried: every list of at most MaxSegs segments in
\* which no three segments need translation (the tasks of two segments
\* already interleave in every way; a third multiplies the runs and adds no
\* interleaving of a new kind).
NeedTranslation(f) == {i \in DOMAIN f : ~IsSimple(f[i])}

SegmentLists ==
  UNION { {[i \in 1..n |-> Segment(i, f[i])] :
             f \in {g \in [1..n -> SegTexts] :
                      \A i, j, k \in NeedTranslation(g) : i = j \/ j = k \/ i = k}} :
          n \in 0..MaxSegs }

Auto == <<"a", "u", "t", "o">>
LangEN == <<"E", "N">>
Langen == <<"e", "n">>
Langzh == <<"z", "h">>

\* (source_lang, target_lang) of a run
LangPairs == {<<Auto, Langzh>>, <<LangEN, Langen>>}

\* str.lower(), on the letters the languages use
LowerChar(c) == CASE c = "E" -> "e" [] c = "N" -> "n" [] OTHER -> c
Lower(t) == [k \in 1..Len(t) |-> LowerChar(t[k])]

\* f"{seg.original_text}_{source_lang}_{target_lang}"
CacheKey(text, src, tgt) == text \o <<"_">> \o src \o <<"_">> \o tgt

\* The cache is a dict, held as its set of <<key, value>> items.
CacheHas(c, key) == \E e \in c : e[1] = key
CacheGet(c, key) == (CHOOSE e \in c : e[1] = key)[2]
CachePut(c, key, value) == {e \in c : e[1] /= key} \cup {<<key, value>>}

\* The contents translation_cache.json may have when a run starts.
InitialCaches(src, tgt) ==
  { {},
    {<<CacheKey(Hi, src, tgt), Ni>>},
    {<<CacheKey(Hi, src, tgt), <<" ", "H", "i">> >>} }

\* How a client behaves: "any" (each call returns any of the responses below
\* or raises), "raise" (every call raises), or one of the behaviours that
\* make the response a function of the prompt.
AnyClients == [translator |-> "any", evaluator |-> "any", optimizer |-> "any"]

\* ----------------------------------------------------------------- state
Stages == {"translate", "repair", "evaluate_1", "optimize", "evaluate_2"}

VARIABLES
  segments,       \* run's argument: the list of TranslationSegments
  source_lang,    \* run's argument
  target_lang,    \* run's argument
  cache_file,     \* the contents of translation_cache.json
  cache,          \* self.cache
  cache_loaded,   \* history: self.cache as _load_cache left it when the run
                  \* began (kept where a claim compares the outcome with it)
  results_map,    \* results_map, by segment id
  tasks,          \* the futures of each stage's executor, by segment id
  pc,             \* where the thread that executes run is
  final_results,  \* the list run returns
  called,         \* <<client, segment id>>: this run called the client for the segment
  clients,        \* self.translator, self.evaluator, self.optimizer: their behaviour
  total_usage,    \* self.total_usage
  stage_usage,    \* self.stage_usage
  run_number,     \* how many times run has been called on this workflow
  progress_callback, \* run's argument: a progress callback is given
  progress,       \* the fraction last passed to the progress callback in this run
  parse_text,     \* _parse_evaluation called on its own: the argument
  parse_result,   \* _parse_evaluation called on its own: the value returned
  comparative_result, \* the two results of _evaluate_comparative_task's parsing,
                  \* called on its own with parse_text as the response
  doc,            \* DocumentProcessor.doc: the paragraphs of the body
  doc_segments,   \* DocumentProcessor.segments
  translations,   \* apply_translations' argument, from segment id to text
  tree,           \* DocumentProcessor.doc as extract_segments walks it: the body,
                  \* its tables, and the headers and footers of the sections
  simple_text,    \* _is_simple_segment called on its own: the argument
  simple_result,  \* _is_simple_segment called on its own: the value returned
  doc_copy        \* save_bilingual: the document it saves (<< >>: not saved yet)

\* The state of the workflow's run, and the state of the functions that are
\* exercised on their own.
run_vars == <<segments, source_lang, target_lang, cache_file, cache, cache_loaded,
              results_map, tasks, pc, final_results, called, clients, total_usage,
              stage_usage, run_number, progress_callback, progress>>
usage_vars == <<total_usage, stage_usage>>
doc_vars == <<doc, doc_segments, translations, tree, doc_copy>>
simple_vars == <<simple_text, simple_result>>
aux == <<parse_text, parse_result, comparative_result, doc_vars, simple_vars>>
vars == <<run_vars, aux>>

Ids == 1..Len(segments)

WorkflowResult(id, original) ==
  [segment_id |-> id, original |-> original, translation_a |-> Empty,
   eval_a |-> None, translation_c |-> Empty, eval_c |-> None,
   final_translation |-> Empty, selected_model |-> ""]

\* A future: st is "none" (never submitted), "run" (queued or running; the
\* retry wrapper has seen `attempts` calls raise), "ret" (the task returned
\* val), "exh" (the retries are exhausted: the future holds the exception),
\* and, once the stage's loop has taken it from as_completed, "ok" or "lost".
\* The wrapper's count ends with the wrapper.
NoTask == [st |-> "none", attempts |-> 0, val |-> << >>]
Submitted == [st |-> "run", attempts |-> 0, val |-> << >>]

\* TokenUsage
TokenUsage(p, c, t) == [prompt_tokens |-> p, completion_tokens |-> c, total_tokens |-> t]

\* Faulty variant: the counters are assigned, not added to.
AddKeepingLast(self, other) == other

\* TokenUsage.add
Add(self, other) ==
  TokenUsage(self.prompt_tokens + other.prompt_tokens,
             self.completion_tokens + other.completion_tokens,
             self.total_tokens + other.total_tokens)

\* The keys of self.stage_usage, and the key each stage's loop tracks under.
UsageKeys == {"translation", "evaluation_1", "optimization", "evaluation_2"}

UsageKey(stage) ==
  CASE stage \in {"translate", "repair"} -> "translation"
    [] stage = "evaluate_1" -> "evaluation_1"
    [] stage = "optimize" -> "optimization"
    [] OTHER -> "evaluation_2"

\* What the clients return: the text of the GenerationResult, by behaviour.
TranslatorResponses(seg) ==
  CASE clients.translator = "any" -> {seg.original_text, Ni}
    [] clients.translator = "echo" -> {seg.original_text}
    [] clients.translator = "fixed" -> {Ni}
    [] clients.translator = "padded" -> {<<" ", "H", "i">>}
    [] clients.translator = "hallucinating" ->
         {seg.original_text, <<"N", "{{MATH_", "0", "}}", "{{MATH_", "4", "}}">>}
    [] OTHER -> {}

OptimizerResponses(original, translation) ==
  CASE clients.optimizer = "any" -> {translation, Oi}
    [] clients.optimizer = "same" -> {translation}
    [] clients.optimizer = "fixed" -> {Oi}
    [] clients.optimizer = "revert" -> {original}
    [] clients.optimizer = "hallucinating" -> {translation, <<"O", "{{MATH_", "4", "}}">>}
    [] OTHER -> {}

EvaluatorResponses(original) ==
  CASE clients.evaluator = "any" ->
         { <<"J10">>, <<"J7">>, <<"Jneg">>, <<"FENCE", "json", "x", "FENCE">> }
    [] clients.evaluator = "better" -> { <<"J7">> }
    [] clients.evaluator = "tie" -> { <<"J9">> }
    [] clients.evaluator = "bytext" -> { IF original = Hi THEN <<"J7">> ELSE <<"J10">> }
    [] clients.evaluator = "garbled" -> { <<"FENCE", "json", "x", "FENCE">> }
    [] OTHER -> {}

ComparativeResponses(original) ==
  CASE clients.evaluator = "any" -> { <<"P79">>, <<"P77">>, <<"P97">>, <<"x">> }
    [] clients.evaluator = "better" -> { <<"P79">> }
    [] clients.evaluator = "tie" -> { <<"P77">> }
    [] clients.evaluator = "bytext" -> { IF original = Hi THEN <<"P79">> ELSE <<"P97">> }
    [] clients.evaluator = "garbled" -> { <<"x">> }
    [] OTHER -> {}

\* The token counts of the GenerationResult of a call for segment i: the
\* clients count the tokens of the original text they are given.
GenerationUsage(i) ==
  TokenUsage(Len(segments[i].original_text), 1, Len(segments[i].original_text) + 1)

\* TranslationWorkflow.__init__: the token counters
NoUsage == TokenUsage(0, 0, 0)

Init ==
  /\ segments \in SegmentLists
  /\ \E lp \in LangPairs :
       /\ source_lang = lp[1]
       /\ target_lang = lp[2]
       /\ cache_file \in InitialCaches(lp[1], lp[2])
  /\ cache = {}
  /\ cache_loaded = << >>
  /\ results_map = << >>
  /\ tasks = [s \in Stages |-> [i \in 1..Len(segments) |-> NoTask]]
  /\ pc = "start"
  /\ final_results = << >>
  /\ called = {}
  /\ clients = AnyClients
  /\ total_usage = NoUsage
  /\ stage_usage = [k \in UsageKeys |-> NoUsage]
  /\ run_number = 1
  /\ progress_callback = FALSE
  /\ progress = << >>
  /\ parse_text = Empty
  /\ parse_result = None
  /\ comparative_result = None
  /\ doc = << >>
  /\ doc_segments = << >>
  /\ tree = << >>
  /\ doc_copy = << >>
  /\ simple_text = Empty
  /\ simple_result = None
  /\ translations = << >>

\* -------------------------------------------------------- stage 1: Translate
\* Faulty variant: every hit is taken, whatever its value.
CacheUsableOnAnyHit(seg) ==
  CacheHas(cache_file, CacheKey(seg.original_text, source_lang, target_lang))

\* cache_key in self.cache and cached_trans.strip() != seg.original_text.strip()
CacheUsable(seg) ==
  /\ CacheHas(cache_file, CacheKey(seg.original_text, source_lang, target_lang))
  /\ Strip(CacheGet(cache_file, CacheKey(seg.original_text, source_lang, target_lang)))
       /= Strip(seg.original_text)

\* What the submit loop of stage 1 does with a segment.
TranslateDecision(seg) ==
  IF IsSimple(seg.original_text) THEN "simple"
  ELSE IF CacheUsable(seg) THEN "cached"
  ELSE "submit"

\* Faulty variant: the fraction within the stage, without the stage's start.
FractionWithoutStart(stage_start, stage_end, current, total) ==
  [num |-> current * (stage_end - stage_start), den |-> total]

\* The fraction stage_start + (current / total) * (stage_end - stage_start):
\* the boundaries are written in hundredths, and the fraction is num / den
\* hundredths.
Fraction(stage_start, stage_end, current, total) ==
  [num |-> stage_start * total + current * (stage_end - stage_start), den |-> total]

\* _update_progress: with a callback, the fraction is computed and passed on
UpdateProgress(stage_start, stage_end, current, total) ==
  progress' = IF progress_callback
              THEN <<Fraction(stage_start, stage_end, current, total)>>
              ELSE progress

\* How many futures of the stage the as_completed loop has taken: completed
TakenIn(stage) == Cardinality({j \in Ids : tasks[stage][j].st \in {"ok", "lost"}})

\* How many futures the stage was given
SubmittedTo(stage) == Cardinality({j \in Ids : tasks[stage][j].st /= "none"})

\* run, from its first line to the as_completed loop of stage 1; with a
\* callback and no segment, to the ZeroDivisionError of the first report.
StartRun ==
  /\ pc = "start"
  /\ cache' = cache_file
  /\ cache_loaded' = IF cache_loaded = << >> THEN << >> ELSE <<cache_file>>
  /\ results_map' =
       [i \in Ids |->
          LET seg == segments[i]
              r == WorkflowResult(seg.id, seg.original_text)
          IN CASE TranslateDecision(seg) = "simple" ->
                    [r EXCEPT !.translation_a = seg.original_text,
                              !.selected_model = "Skipped (Simple)"]
               [] TranslateDecision(seg) = "cached" ->
                    [r EXCEPT !.translation_a =
                                CacheGet(cache_file,
                                         CacheKey(seg.original_text, source_lang, target_lang)),
                              !.selected_model = "Cached"]
               [] OTHER -> r]
  /\ tasks' = [s \in Stages |->
                 [i \in Ids |->
                    IF s = "translate" /\ TranslateDecision(segments[i]) = "submit"
                    THEN Submitted ELSE NoTask]]
  /\ LET raises == progress_callback /\ Len(segments) = 0   \* current / total
     IN /\ pc' = IF raises THEN "raised" ELSE "translate"
        /\ IF raises
           THEN UNCHANGED progress
           ELSE UpdateProgress(0, 30, 0, Len(segments))
  /\ UNCHANGED <<aux, progress_callback, clients, run_number, usage_vars>>
  /\ UNCHANGED <<segments, source_lang, target_lang, cache_file, final_results, called>>

\* ------------------------------------------------------------------ tasks
\* Each stage's executor has 32 workers unless configured otherwise, more
\* than the segments of a list tried here: every submitted task may run at
\* once, and the tasks of a stage interleave freely.
\* The client a stage's task calls.
ClientOf(stage) ==
  CASE stage \in {"translate", "repair"} -> "translator"
    [] stage \in {"evaluate_1", "evaluate_2"} -> "evaluator"
    [] OTHER -> "optimizer"

\* The values a task of the stage may return for segment i: what the task
\* function makes of each response of its client.
TaskReturns(stage, i) ==
  CASE stage \in {"translate", "repair"} ->
         { StripInvalidPlaceholders(r, segments[i].math_elements) :
             r \in TranslatorResponses(segments[i]) }
    [] stage = "evaluate_1" ->
         { <<ParseEvaluation(r)>> : r \in EvaluatorResponses(results_map[i].original) }
    [] stage = "optimize" ->
         OptimizerResponses(results_map[i].original, results_map[i].translation_a)
    [] OTHER -> { ParseComparative(r) : r \in ComparativeResponses(results_map[i].original) }

\* The client may raise.
MayRaise(stage) == clients[ClientOf(stage)] \in {"any", "raise"}

\* Faulty variant: the retry wrapper counts the retries, not the attempts.
RetriesExhaustedCountingRetries(failures) == failures > MaxAttempts

\* stop=stop_after_attempt(3): no further attempt after this many failures
RetriesExhausted(failures) == failures >= MaxAttempts

\* Faulty variant: a translation task puts what it returns in the cache itself.
AttemptReturnsWritingCache(stage, i) ==
  /\ tasks[stage][i].st = "run"
  /\ \E v \in TaskReturns(stage, i) :
       /\ tasks' = [tasks EXCEPT ![stage][i] =
                      [st |-> "ret", attempts |-> 0, val |-> v]]
       /\ cache' = IF stage \in {"translate", "repair"}
                   THEN CachePut(cache,
                                 CacheKey(segments[i].original_text, source_lang, target_lang),
                                 v)
                   ELSE cache
  /\ called' = called \cup {<<ClientOf(stage), i>>}
  /\ UNCHANGED progress
  /\ UNCHANGED <<aux, progress_callback, clients, run_number, cache_loaded, usage_vars>>
  /\ UNCHANGED <<segments, source_lang, target_lang, cache_file,
                 results_map, pc, final_results>>

\* One attempt of a task: the client returns, and the task with it.
AttemptReturns(stage, i) ==
  /\ tasks[stage][i].st = "run"
  /\ \E v \in TaskReturns(stage, i) :
       tasks' = [tasks EXCEPT ![stage][i] =
                   [st |-> "ret", attempts |-> 0, val |-> v]]
  /\ called' = called \cup {<<ClientOf(stage), i>>}
  /\ UNCHANGED progress
  /\ UNCHANGED <<aux, progress_callback, clients, run_number, cache_loaded, usage_vars>>
  /\ UNCHANGED <<segments, source_lang, target_lang, cache_file, cache,
                 results_map, pc, final_results>>

\* One attempt of a task: the client raises; the task is retried unless this
\* was its last attempt.
AttemptRaises(stage, i) ==
  /\ tasks[stage][i].st = "run"
  /\ MayRaise(stage)
  /\ tasks' = [tasks EXCEPT ![stage][i] =
                 IF RetriesExhausted(@.attempts + 1)
                 THEN [st |-> "exh", attempts |-> 0, val |-> << >>]
                 ELSE [st |-> "run", attempts |-> @.attempts + 1, val |-> << >>]]
  /\ called' = called \cup {<<ClientOf(stage), i>>}
  /\ UNCHANGED progress
  /\ UNCHANGED <<aux, progress_callback, clients, run_number, cache_loaded, usage_vars>>
  /\ UNCHANGED <<segments, source_lang, target_lang, cache_file, cache,
                 results_map, pc, final_results>>

\* ---------------------------------------------------- the as_completed loops
\* A future the loop may take next.
Completed(stage, i) == tasks[stage][i].st \in {"ret", "exh"}

Taken(t) == [st |-> IF t.st = "ret" THEN "ok" ELSE "lost", attempts |-> 0, val |-> << >>]

\* self._track_usage(stage, usage), with the usage of a task of segment i
TrackUsage(stage, i) ==
  /\ stage_usage' = [stage_usage EXCEPT ![UsageKey(stage)] = Add(@, GenerationUsage(i))]
  /\ total_usage' = Add(total_usage, GenerationUsage(i))

\* Stage 1 and stage 1.5: translation_a and the cache.
CollectTranslation(stage, i) ==
  /\ pc = stage
  /\ stage \in {"translate", "repair"}
  /\ Completed(stage, i)
  /\ LET t == tasks[stage][i]
         seg == segments[i]
     IN IF t.st = "ret"
        THEN /\ results_map' = [results_map EXCEPT ![i].translation_a = t.val]
             /\ cache' = IF Strip(t.val) /= Strip(seg.original_text)
                         THEN CachePut(cache,
                                       CacheKey(seg.original_text, source_lang, target_lang),
                                       t.val)
                         ELSE cache
        ELSE UNCHANGED <<results_map, cache>>
  /\ tasks' = [tasks EXCEPT ![stage][i] = Taken(@)]
  /\ IF tasks[stage][i].st = "ret" THEN TrackUsage(stage, i) ELSE UNCHANGED usage_vars
  /\ IF stage = "translate"
     THEN UpdateProgress(0, 30, TakenIn(stage) + 1, Len(segments))
     ELSE UpdateProgress(30, 35, TakenIn(stage) + 1, SubmittedTo(stage))
  /\ UNCHANGED <<aux, progress_callback, clients, run_number, cache_loaded>>
  /\ UNCHANGED <<segments, source_lang, target_lang, cache_file, pc, final_results, called>>

\* Stage 2: eval_a.
CollectEvaluation1(i) ==
  /\ pc = "evaluate_1"
  /\ Completed("evaluate_1", i)
  /\ LET t == tasks["evaluate_1"][i]
     IN results_map' = IF t.st = "ret"
                       THEN [results_map EXCEPT ![i].eval_a = t.val]
                       ELSE results_map
  /\ tasks' = [tasks EXCEPT !["evaluate_1"][i] = Taken(@)]
  /\ IF tasks["evaluate_1"][i].st = "ret" THEN TrackUsage("evaluate_1", i) ELSE UNCHANGED usage_vars
  /\ UpdateProgress(35, 55, TakenIn("evaluate_1") + 1, Len(segments))
  /\ UNCHANGED <<aux, progress_callback, clients, run_number, cache_loaded>>
  /\ UNCHANGED <<segments, source_lang, target_lang, cache_file, cache, pc,
                 final_results, called>>

\* Stage 3: translation_c.
CollectOptimization(i) ==
  /\ pc = "optimize"
  /\ Completed("optimize", i)
  /\ LET t == tasks["optimize"][i]
     IN results_map' = IF t.st = "ret"
                       THEN [results_map EXCEPT ![i].translation_c = t.val]
                       ELSE results_map
  /\ tasks' = [tasks EXCEPT !["optimize"][i] = Taken(@)]
  /\ IF tasks["optimize"][i].st = "ret" THEN TrackUsage("optimize", i) ELSE UNCHANGED usage_vars
  /\ UpdateProgress(55, 75, TakenIn("optimize") + 1, Len(segments))
  /\ UNCHANGED <<aux, progress_callback, clients, run_number, cache_loaded>>
  /\ UNCHANGED <<segments, source_lang, target_lang, cache_file, cache, pc,
                 final_results, called>>

\* Stage 4: eval_a and eval_c.
CollectComparative(i) ==
  /\ pc = "evaluate_2"
  /\ Completed("evaluate_2", i)
  /\ LET t == tasks["evaluate_2"][i]
     IN results_map' = IF t.st = "ret"
                       THEN [results_map EXCEPT ![i].eval_a = Some(t.val[1]),
                                                ![i].eval_c = Some(t.val[2])]
                       ELSE results_map
  /\ tasks' = [tasks EXCEPT !["evaluate_2"][i] = Taken(@)]
  /\ IF tasks["evaluate_2"][i].st = "ret" THEN TrackUsage("evaluate_2", i) ELSE UNCHANGED usage_vars
  /\ UpdateProgress(75, 95, TakenIn("evaluate_2") + 1, Len(segments))
  /\ UNCHANGED <<aux, progress_callback, clients, run_number, cache_loaded>>
  /\ UNCHANGED <<segments, source_lang, target_lang, cache_file, cache, pc,
                 final_results, called>>

\* ----------------------------------------------------------- stage boundaries
\* Faulty variant: the loop stops as soon as no finished future is waiting, without
\* joining the tasks still running.
StageDoneWithoutJoin(stage) == \A i \in Ids : tasks[stage][i].st \notin {"ret", "exh"}

\* The as_completed loop of the stage has taken every future, and the
\* executor's with-block has been left.
StageDone(stage) == \A i \in Ids : tasks[stage][i].st \in {"none", "ok", "lost"}

\* Faulty variant: the file is left as it was.
SaveCacheKeepingFile(c) == cache_file

\* _save_cache
SaveCache(c) == c

Skipped(r) == r.selected_model = "Skipped (Simple)"

\* Faulty variant: the skipped segments are not left out.
FailedSegmentsWithSimple ==
  { i \in Ids : Strip(results_map[i].translation_a) = Strip(segments[i].original_text) }

\* failed_segments of stage 1.5
FailedSegments ==
  { i \in Ids : /\ ~Skipped(results_map[i])
                /\ Strip(results_map[i].translation_a) = Strip(segments[i].original_text) }

\* source_lang.lower() == target_lang.lower() and source_lang != "auto"
SameLanguage == Lower(source_lang) = Lower(target_lang) /\ source_lang /= Auto

Perfect(s) == EvaluationResult(10, 10, 10, 10, 10, s)

\* Faulty variant: the submit loop of stage 2 forgets the skipped segments.
Evaluation1BypassSameLanguageOnly(r) == SameLanguage

\* Faulty variant: the segments taken from the cache get no evaluator task.
Evaluation1BypassCached(r) ==
  r.selected_model \in {"Skipped (Simple)", "Cached"} \/ SameLanguage

\* The submit loop of stage 2: which segments get no evaluator task.
Evaluation1Bypass(r) == Skipped(r) \/ SameLanguage

\* The submit loop of stage 2.
SubmitEvaluation1 ==
  /\ results_map' =
       [i \in Ids |->
          IF Skipped(results_map[i])
          THEN [results_map[i] EXCEPT !.eval_a =
                  Some(Perfect(<<"Simple segment, no evaluation needed.">>))]
          ELSE IF SameLanguage
          THEN [results_map[i] EXCEPT !.eval_a =
                  Some(Perfect(<<"Source and Target languages are the same.">>))]
          ELSE results_map[i]]
  /\ tasks' = [tasks EXCEPT !["evaluate_1"] =
                 [i \in Ids |-> IF Evaluation1Bypass(results_map[i])
                                THEN NoTask ELSE Submitted]]
  /\ pc' = "evaluate_1"

\* From the end of stage 1's loop to the next as_completed loop: the cache is
\* saved, and either the failed translations are resubmitted (stage 1.5) or
\* stage 2 is submitted.
FinishTranslate ==
  /\ pc = "translate"
  /\ StageDone("translate")
  /\ cache_file' = SaveCache(cache)
  /\ IF FailedSegments /= {}
     THEN /\ tasks' = [tasks EXCEPT !["repair"] =
                         [i \in Ids |-> IF i \in FailedSegments THEN Submitted ELSE NoTask]]
          /\ pc' = "repair"
          /\ UNCHANGED results_map
     ELSE SubmitEvaluation1
  /\ IF FailedSegments /= {}
     THEN UpdateProgress(30, 35, 0, Cardinality(FailedSegments))
     ELSE UpdateProgress(35, 55, 0, Len(segments))
  /\ UNCHANGED <<aux, progress_callback, clients, run_number, cache_loaded, usage_vars>>
  /\ UNCHANGED <<segments, source_lang, target_lang, cache, final_results, called>>

\* From the end of stage 1.5's loop to the as_completed loop of stage 2.
FinishRepair ==
  /\ pc = "repair"
  /\ StageDone("repair")
  /\ cache_file' = SaveCache(cache)
  /\ SubmitEvaluation1
  /\ UpdateProgress(35, 55, 0, Len(segments))
  /\ UNCHANGED <<aux, progress_callback, clients, run_number, cache_loaded, usage_vars>>
  /\ UNCHANGED <<segments, source_lang, target_lang, cache, final_results, called>>

\* total_score >= 9.5
NeedsNoOptimization(e) == 2 * total_score_x5(e) >= 95

\* The submit loop of stage 3 raises AttributeError at a segment that is not
\* skipped and has no eval_a (eval_a.suggestions of None).
SubmitRaisesAt(i) == ~Skipped(results_map[i]) /\ results_map[i].eval_a = None

\* The first segment at which the loop raises (Len(segments) + 1: none).
FirstRaise ==
  IF \E i \in Ids : SubmitRaisesAt(i)
  THEN CHOOSE i \in Ids : SubmitRaisesAt(i) /\ \A j \in 1..(i - 1) : ~SubmitRaisesAt(j)
  ELSE Len(segments) + 1

\* The submit loop of stage 3 gives the segment to the optimizer.
Optimized(r) == ~Skipped(r) /\ ~NeedsNoOptimization(r.eval_a[1])

\* From the end of stage 2's loop to the as_completed loop of stage 3, or to
\* the exception of the submit loop.
FinishEvaluation1 ==
  /\ pc = "evaluate_1"
  /\ StageDone("evaluate_1")
  /\ results_map' =
       [i \in Ids |->
          IF i < FirstRaise /\ ~Optimized(results_map[i])
          THEN [results_map[i] EXCEPT !.translation_c = results_map[i].translation_a]
          ELSE results_map[i]]
  /\ tasks' = [tasks EXCEPT !["optimize"] =
                 [i \in Ids |-> IF i < FirstRaise /\ Optimized(results_map[i])
                                THEN Submitted ELSE NoTask]]
  /\ pc' = IF FirstRaise \in Ids THEN "raising" ELSE "optimize"
  /\ UpdateProgress(55, 75, 0, Len(segments))
  /\ UNCHANGED <<aux, progress_callback, clients, run_number, cache_loaded, usage_vars>>
  /\ UNCHANGED <<segments, source_lang, target_lang, cache_file, cache,
                 final_results, called>>

\* The exception leaves the executor's with-block, which waits for the tasks
\* already submitted, and then leaves run.
Propagate ==
  /\ pc = "raising"
  /\ \A s \in Stages, i \in Ids : tasks[s][i].st /= "run"
  /\ pc' = "raised"
  /\ UNCHANGED progress
  /\ UNCHANGED <<aux, progress_callback, clients, run_number, cache_loaded, usage_vars>>
  /\ UNCHANGED <<segments, source_lang, target_lang, cache_file, cache,
                 results_map, tasks, final_results, called>>

\* The submit loop of stage 4 gives the segment to the comparative evaluation.
Compared(r) == ~Skipped(r) /\ r.translation_c /= r.translation_a

\* From the end of stage 3's loop to the as_completed loop of stage 4.
FinishOptimize ==
  /\ pc = "optimize"
  /\ StageDone("optimize")
  /\ results_map' =
       [i \in Ids |->
          IF Skipped(results_map[i])
          THEN [results_map[i] EXCEPT !.eval_c = Some(Perfect(<<"Simple segment.">>))]
          ELSE IF ~Compared(results_map[i])
          THEN [results_map[i] EXCEPT !.eval_c = results_map[i].eval_a]
          ELSE results_map[i]]
  /\ tasks' = [tasks EXCEPT !["evaluate_2"] =
                 [i \in Ids |-> IF Compared(results_map[i]) THEN Submitted ELSE NoTask]]
  /\ pc' = "evaluate_2"
  /\ UpdateProgress(75, 95, 0, Len(segments))
  /\ UNCHANGED <<aux, progress_callback, clients, run_number, cache_loaded, usage_vars>>
  /\ UNCHANGED <<segments, source_lang, target_lang, cache_file, cache,
                 final_results, called>>

\* ------------------------------------------------------------ stage 5: Select
\* if not res.eval_a: res.eval_a = EvaluationResult(0,0,0,0,0,"Failed")
OrFailed(e) == IF e = None THEN Some(EvaluationResult(0, 0, 0, 0, 0, FailedText)) ELSE e

\* Faulty variant: a tie switches to the optimized translation.
PrefersOptimizedOnTie(eval_a, eval_c) == total_score_x5(eval_c) >= total_score_x5(eval_a)

\* eval_c.total_score > eval_a.total_score
PrefersOptimized(eval_a, eval_c) == total_score_x5(eval_c) > total_score_x5(eval_a)

\* Faulty variant: the selection loop has no branch for the skipped segments.
SelectWithoutSkipBranch(res) ==
  LET r == [res EXCEPT !.eval_a = OrFailed(res.eval_a), !.eval_c = OrFailed(res.eval_c)]
  IN IF PrefersOptimized(r.eval_a[1], r.eval_c[1])
     THEN [r EXCEPT !.final_translation = r.translation_c,
                    !.selected_model = "C (Optimized)"]
     ELSE [r EXCEPT !.final_translation = r.translation_a,
                    !.selected_model = "A (Initial)"]

\* Faulty variant: both branches take the optimized text.
SelectTakingOptimizedText(res) ==
  LET r == [res EXCEPT !.eval_a = OrFailed(res.eval_a), !.eval_c = OrFailed(res.eval_c)]
  IN IF Skipped(r)
     THEN [r EXCEPT !.final_translation = r.translation_a]
     ELSE IF PrefersOptimized(r.eval_a[1], r.eval_c[1])
     THEN [r EXCEPT !.final_translation = r.translation_c,
                    !.selected_model = "C (Optimized)"]
     ELSE [r EXCEPT !.final_translation = r.translation_c,
                    !.selected_model = "A (Initial)"]

\* Faulty variant: the branch of the initial translation leaves the tag.
SelectKeepingTag(res) ==
  LET r == [res EXCEPT !.eval_a = OrFailed(res.eval_a), !.eval_c = OrFailed(res.eval_c)]
  IN IF Skipped(r)
     THEN [r EXCEPT !.final_translation = r.translation_a]
     ELSE IF PrefersOptimized(r.eval_a[1], r.eval_c[1])
     THEN [r EXCEPT !.final_translation = r.translation_c,
                    !.selected_model = "C (Optimized)"]
     ELSE [r EXCEPT !.final_translation = r.translation_a]

\* The body of the selection loop, for one result.
Select(res) ==
  LET r == [res EXCEPT !.eval_a = OrFailed(res.eval_a), !.eval_c = OrFailed(res.eval_c)]
  IN IF Skipped(r)
     THEN [r EXCEPT !.final_translation = r.translation_a]
     ELSE IF PrefersOptimized(r.eval_a[1], r.eval_c[1])
     THEN [r EXCEPT !.final_translation = r.translation_c,
                    !.selected_model = "C (Optimized)"]
     ELSE [r EXCEPT !.final_translation = r.translation_a,
                    !.selected_model = "A (Initial)"]

\* From the end of stage 4's loop to run's return.
FinishEvaluation2 ==
  /\ pc = "evaluate_2"
  /\ StageDone("evaluate_2")
  /\ results_map' = [i \in Ids |-> Select(results_map[i])]
  /\ final_results' = [i \in Ids |-> Select(results_map[i])]
  /\ pc' = "returned"
  /\ UpdateProgress(95, 100, 0, 1)
  /\ UNCHANGED <<aux, progress_callback, clients, run_number, cache_loaded, usage_vars>>
  /\ UNCHANGED <<segments, source_lang, target_lang, cache_file, cache, tasks, called>>

\* ------------------------------------------------------------ specification
Next ==
  \/ StartRun
  \/ \E s \in Stages, i \in Ids : AttemptReturns(s, i)
  \/ \E s \in Stages, i \in Ids : AttemptRaises(s, i)
  \/ \E s \in Stages, i \in Ids : CollectTranslation(s, i)
  \/ \E i \in Ids : CollectEvaluation1(i)
  \/ \E i \in Ids : CollectOptimization(i)
  \/ \E i \in Ids : CollectComparative(i)
  \/ FinishTranslate
  \/ FinishRepair
  \/ FinishEvaluation1
  \/ Propagate
  \/ FinishOptimize
  \/ FinishEvaluation2

Spec == Init /\ [][Next]_vars

\* --------------------------------- runs with clients that are functions
You == <<"Y", "o", "u">>

\* The behaviours under which a client's response is a function of its prompt.
DeterministicClients ==
  [translator : {"echo", "fixed", "padded", "raise"},
   evaluator  : {"better", "tie", "bytext", "garbled", "raise"},
   optimizer  : {"same", "fixed", "revert", "raise"}]

\* Lists of segments over two texts that need translation and a simple one.
OrderSegmentLists ==
  UNION { {[i \in 1..n |-> Segment(i, f[i])] :
             f \in {g \in [1..n -> {Hi, You, Num42}] :
                      \A i, j, k \in NeedTranslation(g) : i = j \/ j = k \/ i = k}} :
          n \in 0..MaxSegs }

InitOrder ==
  /\ segments \in OrderSegmentLists
  /\ \E lp \in LangPairs :
       /\ source_lang = lp[1]
       /\ target_lang = lp[2]
       /\ cache_file \in InitialCaches(lp[1], lp[2])
  /\ cache = {}
  /\ cache_loaded = <<{}>>
  /\ results_map = << >>
  /\ tasks = [s \in Stages |-> [i \in 1..Len(segments) |-> NoTask]]
  /\ pc = "start"
  /\ final_results = << >>
  /\ called = {}
  /\ clients \in DeterministicClients
  /\ total_usage = NoUsage
  /\ stage_usage = [k \in UsageKeys |-> NoUsage]
  /\ run_number = 1
  /\ progress_callback = FALSE
  /\ progress = << >>
  /\ parse_text = Empty
  /\ parse_result = None
  /\ comparative_result = None
  /\ doc = << >>
  /\ doc_segments = << >>
  /\ tree = << >>
  /\ doc_copy = << >>
  /\ simple_text = Empty
  /\ simple_result = None
  /\ translations = << >>

SpecOrder == InitOrder /\ [][Next]_vars

\* ------------------------------------------------------- consecutive runs
\* run is called again on the same workflow, with the same arguments, once
\* the call before it has returned or raised.  The translation cache is the
\* file; the token counters are the workflow's and go on counting.
RunAgain ==
  /\ pc \in {"returned", "raised"}
  /\ run_number < MaxRuns
  /\ run_number' = run_number + 1
  /\ pc' = "start"
  /\ final_results' = << >>
  /\ called' = {}
  /\ progress' = << >>
  /\ UNCHANGED <<aux, progress_callback, clients, cache_loaded, usage_vars>>
  /\ UNCHANGED <<segments, source_lang, target_lang, cache_file, cache, results_map, tasks>>

\* The clients of the runs that exercise the cache: a translator that
\* returns one fixed string, whatever it is given.
FixedTranslatorClients ==
  [translator : {"fixed", "padded"},
   evaluator  : {"better", "tie", "garbled", "raise"},
   optimizer  : {"same", "fixed", "raise"}]

InitTwoRuns ==
  /\ segments \in OrderSegmentLists
  /\ \E lp \in LangPairs :
       /\ source_lang = lp[1]
       /\ target_lang = lp[2]
       /\ cache_file \in InitialCaches(lp[1], lp[2])
  /\ cache = {}
  /\ cache_loaded = << >>
  /\ results_map = << >>
  /\ tasks = [s \in Stages |-> [i \in 1..Len(segments) |-> NoTask]]
  /\ pc = "start"
  /\ final_results = << >>
  /\ called = {}
  /\ clients \in FixedTranslatorClients
  /\ total_usage = NoUsage
  /\ stage_usage = [k \in UsageKeys |-> NoUsage]
  /\ run_number = 1
  /\ progress_callback = FALSE
  /\ progress = << >>
  /\ parse_text = Empty
  /\ parse_result = None
  /\ comparative_result = None
  /\ doc = << >>
  /\ doc_segments = << >>
  /\ tree = << >>
  /\ doc_copy = << >>
  /\ simple_text = Empty
  /\ simple_result = None
  /\ translations = << >>

NextTwoRuns == Next \/ RunAgain

SpecTwoRuns == InitTwoRuns /\ [][NextTwoRuns]_vars

\* ------------------------------------- runs with an optimizer that reverts
\* A translator that may echo, translate or raise at each call, beside an
\* evaluator and an optimizer of each behaviour, the optimizer that hands
\* back the original text included.
RevertingClients ==
  [translator : {"any"},
   evaluator  : {"better", "tie", "raise"},
   optimizer  : {"same", "fixed", "revert"}]

InitRepair ==
  /\ segments \in SegmentLists
  /\ \E lp \in LangPairs :
       /\ source_lang = lp[1]
       /\ target_lang = lp[2]
       /\ cache_file \in InitialCaches(lp[1], lp[2])
  /\ cache = {}
  /\ cache_loaded = << >>
  /\ results_map = << >>
  /\ tasks = [s \in Stages |-> [i \in 1..Len(segments) |-> NoTask]]
  /\ pc = "start"
  /\ final_results = << >>
  /\ called = {}
  /\ clients \in RevertingClients
  /\ total_usage = NoUsage
  /\ stage_usage = [k \in UsageKeys |-> NoUsage]
  /\ run_number = 1
  /\ progress_callback = FALSE
  /\ progress = << >>
  /\ parse_text = Empty
  /\ parse_result = None
  /\ comparative_result = None
  /\ doc = << >>
  /\ doc_segments = << >>
  /\ tree = << >>
  /\ doc_copy = << >>
  /\ simple_text = Empty
  /\ simple_result = None
  /\ translations = << >>

SpecRepair == InitRepair /\ [][Next]_vars

\* ------------------------------------------------ runs with a progress callback
InitProgress ==
  /\ segments \in SegmentLists
  /\ \E lp \in LangPairs :
       /\ source_lang = lp[1]
       /\ target_lang = lp[2]
       /\ cache_file \in InitialCaches(lp[1], lp[2])
  /\ cache = {}
  /\ cache_loaded = << >>
  /\ results_map = << >>
  /\ tasks = [s \in Stages |-> [i \in 1..Len(segments) |-> NoTask]]
  /\ pc = "start"
  /\ final_results = << >>
  /\ called = {}
  /\ clients = AnyClients
  /\ total_usage = NoUsage
  /\ stage_usage = [k \in UsageKeys |-> NoUsage]
  /\ run_number = 1
  /\ progress_callback = TRUE
  /\ progress = << >>
  /\ parse_text = Empty
  /\ parse_result = None
  /\ comparative_result = None
  /\ doc = << >>
  /\ doc_segments = << >>
  /\ tree = << >>
  /\ doc_copy = << >>
  /\ simple_text = Empty
  /\ simple_result = None
  /\ translations = << >>

SpecProgress == InitProgress /\ [][Next]_vars

\* ------------------------------------------- _parse_evaluation on its own
\* The tokens of the evaluator responses tried.
ResponseTokens ==
  {"FENCE", "json", "markdownjson", " ", "x", "J7", "Jacc", "Jword", "Jlist", "Jnull"}

ResponseTexts == UNION { [1..n -> ResponseTokens] : n \in 0..MaxResponseLen }

InitParse ==
  /\ segments = << >>
  /\ source_lang = Auto
  /\ target_lang = Langzh
  /\ cache_file = {}
  /\ cache = {}
  /\ cache_loaded = << >>
  /\ results_map = << >>
  /\ tasks = [s \in Stages |-> << >>]
  /\ pc = "parse"
  /\ final_results = << >>
  /\ called = {}
  /\ clients = AnyClients
  /\ total_usage = NoUsage
  /\ stage_usage = [k \in UsageKeys |-> NoUsage]
  /\ run_number = 1
  /\ progress_callback = FALSE
  /\ progress = << >>
  /\ parse_text \in ResponseTexts
  /\ parse_result = None
  /\ comparative_result = None
  /\ doc = << >>
  /\ doc_segments = << >>
  /\ tree = << >>
  /\ doc_copy = << >>
  /\ simple_text = Empty
  /\ simple_result = None
  /\ translations = << >>

\* self._parse_evaluation(result.text), the last line of _evaluate_task
CallParseEvaluation ==
  /\ pc = "parse"
  /\ parse_result = None
  /\ parse_result' = Some(ParseEvaluation(parse_text))
  /\ UNCHANGED <<run_vars, parse_text, comparative_result, doc_vars, simple_vars>>

NextParse == CallParseEvaluation

SpecParse == InitParse /\ [][NextParse]_vars

\* ------------------------- the parsing of the comparative task on its own
\* The tokens of the comparative responses tried.
ComparativeTokens == {"FENCE", "json", " ", "x", "P79", "Ponly_c", "Pbad", "J7"}

ComparativeTexts == UNION { [1..n -> ComparativeTokens] : n \in 0..MaxResponseLen }

\* Everything of the workflow at rest, while a function is exercised on its own.
WorkflowAtRest ==
  /\ segments = << >>
  /\ source_lang = Auto
  /\ target_lang = Langzh
  /\ cache_file = {}
  /\ cache = {}
  /\ cache_loaded = << >>
  /\ results_map = << >>
  /\ tasks = [s \in Stages |-> << >>]
  /\ final_results = << >>
  /\ called = {}
  /\ clients = AnyClients
  /\ total_usage = NoUsage
  /\ stage_usage = [k \in UsageKeys |-> NoUsage]
  /\ run_number = 1
  /\ progress_callback = FALSE
  /\ progress = << >>

InitComparative ==
  /\ WorkflowAtRest
  /\ pc = "parse_comparative"
  /\ parse_text \in ComparativeTexts
  /\ parse_result = None
  /\ comparative_result = None
  /\ doc = << >>
  /\ doc_segments = << >>
  /\ tree = << >>
  /\ doc_copy = << >>
  /\ simple_text = Empty
  /\ simple_result = None
  /\ translations = << >>

\* The try block that ends _evaluate_comparative_task
CallParseComparative ==
  /\ pc = "parse_comparative"
  /\ comparative_result = None
  /\ comparative_result' = Some(ParseComparative(parse_text))
  /\ UNCHANGED <<run_vars, parse_text, parse_result, doc_vars, simple_vars>>

NextComparative == CallParseComparative

SpecComparative == InitComparative /\ [][NextComparative]_vars

\* --------------------------------------------- apply_translations on its own
Bold == Font("true", "none")
Italic == Font("none", "true")

\* The paragraphs tried: two formatted runs; a formula between two runs; a
\* run whose text has a character of the placeholder, then a formula; a
\* number; a blank paragraph, which gets no segment.
ParaAB == <<Run(<<"A", "1">>, Bold), Run(<<"B", "2">>, Italic)>>
ParaMath == <<Run(<<"a">>, Bold), Math("E1", FALSE), Run(<<"b">>, Italic)>>
ParaDigit == <<Run(<<"x", "0">>, Bold), Math("E2", FALSE)>>
ParaNum == <<Run(<<"4", "2">>, NoFont)>>
ParaBlank == <<Run(<<" ">>, NoFont)>>

SampleParagraphs == {ParaAB, ParaMath, ParaDigit, ParaNum, ParaBlank}

\* The documents tried: one paragraph, or one paragraph next to ParaMath.
Documents ==
  { <<p>> : p \in SampleParagraphs }
    \cup { <<p, ParaMath>> : p \in SampleParagraphs }
    \cup { <<ParaMath, p>> : p \in SampleParagraphs }

\* The translations tried are made of up to MaxPieces of these pieces.
Pieces == { <<"A", "1">>, <<"B", "2">>, <<"-", "X", "-">>, <<"c">>, MathKey(0) }

RECURSIVE Concat(_)
Concat(ss) == IF ss = << >> THEN Empty ELSE Head(ss) \o Concat(Tail(ss))

PieceTexts == { Concat(ps) : ps \in UNION { [1..n -> Pieces] : n \in 0..MaxPieces } }

Padded(t) == <<" ">> \o t \o <<" ">>

\* The maps tried: the segment of paragraph `free` has its original text,
\* that text between blanks, or a text made of pieces; the other segments
\* have their original text, between blanks or not; any segment may have no
\* entry.
TranslationMaps(segs, free) ==
  LET texts(seg) == IF seg.obj_ref = free
                    THEN PieceTexts \cup {seg.original_text, Padded(seg.original_text)}
                    ELSE {seg.original_text, Padded(seg.original_text)}
      ids == {segs[k].id : k \in 1..Len(segs)}
      segOf(id) == segs[CHOOSE k \in 1..Len(segs) : segs[k].id = id]
  IN UNION { { f \in [present -> UNION {texts(segOf(id)) : id \in present}] :
                 \A id \in present : f[id] \in texts(segOf(id)) }
             : present \in SUBSET ids }

InitApply ==
  /\ WorkflowAtRest
  /\ pc = "apply"
  /\ parse_text = Empty
  /\ parse_result = None
  /\ comparative_result = None
  /\ doc \in Documents
  /\ doc_segments = ExtractSegments(doc)
  /\ tree = << >>
  /\ doc_copy = << >>
  /\ simple_text = Empty
  /\ simple_result = None
  /\ \E free \in 1..Len(doc) : translations \in TranslationMaps(doc_segments, free)

\* The segment of a paragraph, if it has one.
SegmentsOf(p) == {k \in 1..Len(doc_segments) : doc_segments[k].obj_ref = p}

\* apply_translations rebuilds the paragraph of this segment
Rebuilds(seg) ==
  /\ seg.id \in DOMAIN translations
  /\ ~SameText(translations[seg.id], seg)

\* apply_translations(translations)
ApplyTranslations ==
  /\ pc = "apply"
  /\ doc' = [p \in 1..Len(doc) |->
              IF \E k \in SegmentsOf(p) : Rebuilds(doc_segments[k])
              THEN LET seg == doc_segments[CHOOSE k \in SegmentsOf(p) : TRUE]
                   IN Rebuild(doc[p], seg, translations[seg.id])
              ELSE doc[p]]
  /\ pc' = "applied"
  /\ UNCHANGED <<segments, source_lang, target_lang, cache_file, cache, cache_loaded,
                 results_map, tasks, final_results, called, clients, total_usage,
                 stage_usage, run_number, progress_callback, progress>>
  /\ UNCHANGED <<parse_text, parse_result, comparative_result, doc_segments,
                 translations, tree, doc_copy, simple_vars>>

NextApply == ApplyTranslations

SpecApply == InitApply /\ [][NextApply]_vars

\* ----------------------------------------------- extract_segments on its own
\* A paragraph of the tree is [el |-> the element it wraps, children |-> its
\* children].  A container (the body, a header, a footer) is [paragraphs,
\* tables]; a table is a list of rows, a row the list of its cells (row.cells
\* gives a merged cell once for every grid column it spans), a cell the list
\* of its paragraphs.  A section is the list of its six headers and footers,
\* in the order they are processed; a header linked to the previous
\* section's is that section's container.
\* The prefixes of the six, after f"s_{s_idx}_".
HeaderKinds == << <<"h">>, <<"h", "1">>, <<"h", "e">>, <<"f">>, <<"f", "1">>, <<"f", "e">> >>

\* The paragraphs _process_container comes by, in its order, each with the
\* id a segment of it gets.  Indices count from 0.
ContainerPositions(container, prefix) ==
  [i \in 1..Len(container.paragraphs) |->
     [id |-> prefix \o <<"p", "_", ToString(i - 1)>>, para |-> container.paragraphs[i]]]
  \o Concat([t \in 1..Len(container.tables) |->
       Concat([r \in 1..Len(container.tables[t]) |->
         Concat([c \in 1..Len(container.tables[t][r]) |->
           [q \in 1..Len(container.tables[t][r][c]) |->
              [id |-> prefix \o <<"t", "_", ToString(t - 1), "_", "r", "_", ToString(r - 1),
                                  "_", "c", "_", ToString(c - 1), "_", "p", "_",
                                  ToString(q - 1)>>,
               para |-> container.tables[t][r][c][q]]]])])])

\* The body, then the headers and footers of every section.
TreePositions(t) ==
  ContainerPositions(t.body, << >>)
  \o Concat([s \in 1..Len(t.sections) |->
       Concat([k \in 1..Len(HeaderKinds) |->
         ContainerPositions(t.sections[s][k],
                            <<"s", "_", ToString(s - 1), "_">> \o HeaderKinds[k] \o <<"_">>)])])

\* Faulty variant: no paragraph is skipped for having been visited.
RECURSIVE VisitAll(_, _, _)
VisitAll(positions, visited_elements, segs) ==
  IF positions = << >> THEN segs
  ELSE LET x == Head(positions)
           text == Strip(ExtractText(x.para.children, 0))
       IN VisitAll(Tail(positions), visited_elements,
                   IF text /= Empty
                   THEN segs \o <<[id |-> x.id, original_text |-> text, obj_ref |-> x.para.el,
                                   math_elements |-> ExtractMath(x.para.children)]>>
                   ELSE segs)

\* The two loops of _process_container over the paragraphs they come by: a
\* paragraph whose element was visited is skipped; one with text gets a
\* segment.
RECURSIVE Visit(_, _, _)
Visit(positions, visited_elements, segs) ==
  IF positions = << >> THEN segs
  ELSE LET x == Head(positions)
           text == Strip(ExtractText(x.para.children, 0))
       IN IF x.para.el \in visited_elements
          THEN Visit(Tail(positions), visited_elements, segs)
          ELSE Visit(Tail(positions), visited_elements \cup {x.para.el},
                     IF text /= Empty
                     THEN segs \o <<[id |-> x.id, original_text |-> text,
                                     obj_ref |-> x.para.el,
                                     math_elements |-> ExtractMath(x.para.children)]>>
                     ELSE segs)

\* The documents tried.  The body has up to two paragraphs and may have a
\* table of one row of two cells, which may be one merged cell; there are
\* one or two sections, the second with its own header or linked to the
\* first's; every paragraph is blank, a number, or runs around a formula.
Paragraph(el, children) == [el |-> el, children |-> children]
Container(paragraphs, tables) == [paragraphs |-> paragraphs, tables |-> tables]
NoContainer == Container(<< >>, << >>)
Section(header) == <<header, NoContainer, NoContainer, NoContainer, NoContainer, NoContainer>>

DocumentTrees ==
  LET contents == [1..6 -> {ParaBlank, ParaNum, ParaMath}]
      P(f, el) == Paragraph(el, f[el])
  IN UNION {
       { [body |-> Container(SubSeq(<<P(f, 1), P(f, 2)>>, 1, n), tables),
          sections |-> sects]
         : n \in 0..2,
           tables \in { << >>,
                        << << << <<P(f, 3)>>, <<P(f, 3)>> >> >> >>,
                        << << << <<P(f, 3)>>, <<P(f, 4)>> >> >> >> },
           sects \in { <<Section(Container(<<P(f, 5)>>, << >>))>>,
                       <<Section(Container(<<P(f, 5)>>, << >>)),
                         Section(Container(<<P(f, 5)>>, << >>))>>,
                       <<Section(Container(<<P(f, 5)>>, << >>)),
                         Section(Container(<<P(f, 6)>>, << >>))>> } }
       : f \in contents }

InitExtract ==
  /\ WorkflowAtRest
  /\ pc = "extract"
  /\ parse_text = Empty
  /\ parse_result = None
  /\ comparative_result = None
  /\ doc = << >>
  /\ doc_segments = << >>
  /\ translations = << >>
  /\ tree \in DocumentTrees
  /\ doc_copy = << >>
  /\ simple_text = Empty
  /\ simple_result = None

\* extract_segments()
CallExtractSegments ==
  /\ pc = "extract"
  /\ doc_segments' = Visit(TreePositions(tree), {}, << >>)
  /\ pc' = "extracted"
  /\ UNCHANGED <<segments, source_lang, target_lang, cache_file, cache, cache_loaded,
                 results_map, tasks, final_results, called, clients, total_usage,
                 stage_usage, run_number, progress_callback, progress>>
  /\ UNCHANGED <<parse_text, parse_result, comparative_result, doc, translations, tree, doc_copy,
                 simple_vars>>

SpecExtract == InitExtract /\ [][CallExtractSegments]_vars

\* ------------------------------------------------------------ save_bilingual
\* The results of a finished run that translate_document hands on: the tag,
\* eval_a and eval_c of every result (the tag is "C (Optimized)" when eval_c
\* is above eval_a).  The totals are 4.8, 5.0, 8.4 and 8.6.
Total48 == EvaluationResult(5, 5, 5, 5, 4, Empty)
Total50 == EvaluationResult(5, 5, 5, 5, 5, Empty)
Total84 == EvaluationResult(9, 9, 8, 8, 8, Empty)
Total86 == EvaluationResult(9, 9, 9, 8, 8, Empty)

Verdicts ==
  { [tag |-> "A (Initial)", a |-> Total48, c |-> Total48],
    [tag |-> "A (Initial)", a |-> Total50, c |-> Total48],
    [tag |-> "A (Initial)", a |-> Total86, c |-> Total84],
    [tag |-> "C (Optimized)", a |-> Total48, c |-> Total50],
    [tag |-> "C (Optimized)", a |-> Total50, c |-> Total84],
    [tag |-> "C (Optimized)", a |-> Total84, c |-> Total86] }

\* Faulty variant: the score is always that of the initial translation.
BilingualScoreOfInitial(r) == IF r.eval_a /= None THEN total_score_x5(r.eval_a[1]) ELSE 0

\* translate_document: the score given to save_bilingual with a result,
\* five times over
BilingualScore(r) ==
  IF r.selected_model = "C (Optimized)" /\ r.eval_c /= None
  THEN total_score_x5(r.eval_c[1])
  ELSE IF r.eval_a /= None THEN total_score_x5(r.eval_a[1]) ELSE 0

\* text_color: red under 5, orange under 8.5, otherwise None
TextColor(score_x5) ==
  IF score_x5 < 25 THEN "red"
  ELSE IF 2 * score_x5 < 85 THEN "orange"
  ELSE "none"

\* A child of a paragraph of doc_copy: text_color is the colour that
\* save_bilingual gave the run ("none": it gave none).
Colored(child, text_color) ==
  [kind |-> child.kind, text |-> child.text, font |-> child.font, obj |-> child.obj,
   copy |-> child.copy, text_color |-> text_color]

AsLoaded(para) == [n \in 1..Len(para) |-> Colored(para[n], "none")]

\* _process_paragraph_bilingual, for a paragraph that has a translation:
\* unless the translation is the text of the runs, a line break is appended
\* and then the translation, block by block as in apply_translations, each
\* run with the colour of the score.
ProcessParagraphBilingual(para, seg, trans, score_x5) ==
  IF Strip(trans) = Strip(OrigText(Runs(para)))
  THEN AsLoaded(para)
  ELSE LET emitted == Rebuild(Runs(para), seg, trans)
       IN AsLoaded(para)
          \o <<Colored(Run(<<"NEWLINE">>, NoFont), "none")>>
          \o [n \in 1..Len(emitted) |->
                Colored(emitted[n], IF emitted[n].kind = "r"
                                    THEN TextColor(score_x5) ELSE "none")]

InitBilingual ==
  /\ segments = << >>
  /\ source_lang = Auto
  /\ target_lang = Langzh
  /\ cache_file = {}
  /\ cache = {}
  /\ cache_loaded = << >>
  /\ results_map = << >>
  /\ tasks = [s \in Stages |-> << >>]
  /\ called = {}
  /\ clients = AnyClients
  /\ total_usage = NoUsage
  /\ stage_usage = [k \in UsageKeys |-> NoUsage]
  /\ run_number = 1
  /\ progress_callback = FALSE
  /\ progress = << >>
  /\ pc = "bilingual"
  /\ parse_text = Empty
  /\ parse_result = None
  /\ comparative_result = None
  /\ doc \in Documents
  /\ doc_segments = ExtractSegments(doc)
  /\ tree = << >>
  /\ doc_copy = << >>
  /\ simple_text = Empty
  /\ simple_result = None
  /\ \E free \in 1..Len(doc) :
       /\ translations \in { f \in TranslationMaps(doc_segments, free) :
                               Cardinality(DOMAIN f) = Len(doc_segments) }
       /\ \E v \in Verdicts :
            final_results =
              [k \in 1..Len(doc_segments) |->
                 [WorkflowResult(doc_segments[k].id, doc_segments[k].original_text)
                    EXCEPT !.final_translation = translations[doc_segments[k].id],
                           !.translation_a = IF v.tag = "A (Initial)"
                                              THEN translations[doc_segments[k].id]
                                              ELSE Empty,
                           !.translation_c = IF v.tag = "C (Optimized)"
                                              THEN translations[doc_segments[k].id]
                                              ELSE Empty,
                           !.selected_model = v.tag,
                           !.eval_a = Some(v.a),
                           !.eval_c = Some(v.c)]]

\* translate_document from the results to the bilingual document:
\* bilingual_translations, then save_bilingual on the document as loaded
\* from the file.
SaveBilingual ==
  /\ pc = "bilingual"
  /\ doc_copy' =
       [p \in 1..Len(doc) |->
          IF SegmentsOf(p) /= {}
          THEN LET k == CHOOSE x \in SegmentsOf(p) : TRUE
               IN ProcessParagraphBilingual(doc[p], doc_segments[k],
                                            final_results[k].final_translation,
                                            BilingualScore(final_results[k]))
          ELSE AsLoaded(doc[p])]
  /\ pc' = "saved"
  /\ UNCHANGED <<segments, source_lang, target_lang, cache_file, cache, cache_loaded,
                 results_map, tasks, final_results, called, clients, total_usage,
                 stage_usage, run_number, progress_callback, progress>>
  /\ UNCHANGED <<parse_text, parse_result, comparative_result, doc, doc_segments,
                 translations, tree, simple_vars>>

SpecBilingual == InitBilingual /\ [][SaveBilingual]_vars

\* ------------------------------- runs with clients that invent placeholders
\* The lists tried: a first segment that needs translation, with or without
\* a formula (placeholder 0), followed by simple segments.
PlaceholderSegmentLists ==
  LET firsts == { Segment(1, Hi),
                  [id |-> 1, original_text |-> <<"H", "{{MATH_", "0", "}}">>,
                   math_elements |-> { <<"{{MATH_", "0", "}}">> }] }
  IN { [i \in 1..n |-> IF i = 1 THEN f ELSE Segment(i, Num42)] :
         f \in firsts, n \in 1..MaxSegs }

InitPlaceholders ==
  /\ segments \in PlaceholderSegmentLists
  /\ \E lp \in LangPairs :
       /\ source_lang = lp[1]
       /\ target_lang = lp[2]
       /\ cache_file \in InitialCaches(lp[1], lp[2])
  /\ cache = {}
  /\ cache_loaded = << >>
  /\ results_map = << >>
  /\ tasks = [s \in Stages |-> [i \in 1..Len(segments) |-> NoTask]]
  /\ pc = "start"
  /\ final_results = << >>
  /\ called = {}
  /\ clients = [translator |-> "hallucinating", evaluator |-> "any",
                optimizer |-> "hallucinating"]
  /\ total_usage = NoUsage
  /\ stage_usage = [k \in UsageKeys |-> NoUsage]
  /\ run_number = 1
  /\ progress_callback = FALSE
  /\ progress = << >>
  /\ parse_text = Empty
  /\ parse_result = None
  /\ comparative_result = None
  /\ doc = << >>
  /\ doc_segments = << >>
  /\ tree = << >>
  /\ doc_copy = << >>
  /\ simple_text = Empty
  /\ simple_result = None
  /\ translations = << >>

SpecPlaceholders == InitPlaceholders /\ [][Next]_vars

\* -------------------------------------------- _is_simple_segment on its own
\* The characters of the texts tried: a blank, a digit, a full stop, a
\* dollar sign, a multiplication sign, a typographic quote, a letter, and
\* the two ends of a placeholder.
SimpleChars == {" ", "4", ".", "$", "TIMES", "LDQUO", "H", "{{MATH_", "}}"}

SimpleTexts == UNION { [1..n -> SimpleChars] : n \in 0..MaxTextLen }

InitSimple ==
  /\ WorkflowAtRest
  /\ pc = "is_simple"
  /\ parse_text = Empty
  /\ parse_result = None
  /\ comparative_result = None
  /\ doc = << >>
  /\ doc_segments = << >>
  /\ translations = << >>
  /\ tree = << >>
  /\ doc_copy = << >>
  /\ simple_text \in SimpleTexts
  /\ simple_result = None

\* self._is_simple_segment(seg.original_text)
CallIsSimple ==
  /\ pc = "is_simple"
  /\ simple_result = None
  /\ simple_result' = Some(IsSimple(simple_text))
  /\ UNCHANGED <<run_vars, parse_text, parse_result, comparative_result, doc_vars,
                 simple_text>>

SpecSimple == InitSimple /\ [][CallIsSimple]_vars

\* ------------------------------------------------------------------ claims
Returned == pc = "returned"

AllScores(e, n) ==
  /\ e.accuracy = n /\ e.fluency = n /\ e.consistency = n
  /\ e.terminology = n /\ e.completeness = n

\* Some task of segment i exhausted its retries.
SomeTaskFailed(i) == \E s \in Stages : tasks[s][i].st \in {"exh", "lost"}

\* C1: run never raises and, when it returns, returns exactly one
\* WorkflowResult per input segment, in order, whichever client calls fail.
C1_RunReturnsOneResultPerSegment ==
  /\ pc \notin {"raising", "raised"}
  /\ Returned =>
       /\ Len(final_results) = Len(segments)
       /\ \A i \in Ids : final_results[i].segment_id = segments[i].id

\* C2: for a segment whose original text is simple, no task is submitted in
\* any stage and no client is ever called.
C2_SimpleSegmentsNeverCallClients ==
  \A i \in Ids :
    IsSimple(segments[i].original_text) =>
      /\ \A s \in Stages : tasks[s][i].st = "none"
      /\ \A c \in {"translator", "evaluator", "optimizer"} : <<c, i>> \notin called

\* The run has returned, a simple segment went through every stage beside a
\* segment for which all three clients were called.
C2_Witness ==
  /\ Returned
  /\ \E i \in Ids : IsSimple(segments[i].original_text)
  /\ \E j \in Ids : \A c \in {"translator", "evaluator", "optimizer"} : <<c, j>> \in called

\* C3: the result run returns for a simple segment has the original text as
\* final_translation, the tag Skipped (Simple), and ten for each of the five
\* scores of eval_a and of eval_c.
C3_SimpleSegmentResult ==
  Returned =>
    \A i \in Ids :
      IsSimple(segments[i].original_text) =>
        /\ final_results[i].final_translation = segments[i].original_text
        /\ final_results[i].selected_model = "Skipped (Simple)"
        /\ final_results[i].eval_a /= None
        /\ final_results[i].eval_c /= None
        /\ AllScores(final_results[i].eval_a[1], 10)
        /\ AllScores(final_results[i].eval_c[1], 10)

\* A run has returned the result of a simple segment, after a sibling was
\* evaluated by the evaluator.
C3_Witness ==
  /\ Returned
  /\ \E i \in Ids : /\ IsSimple(segments[i].original_text)
                    /\ final_results[i].selected_model = "Skipped (Simple)"
  /\ \E j \in Ids : <<"evaluator", j>> \in called

\* C4: for a segment that is not simple, selection takes the optimized
\* translation and tags it C (Optimized) only when eval_c's total exceeds
\* eval_a's; on a tie or a lower total it takes the initial translation and
\* tags it A (Initial).
C4_SelectionIsStrict ==
  Returned =>
    \A i \in Ids :
      ~IsSimple(segments[i].original_text) =>
        LET r == final_results[i]
            a == total_score_x5(r.eval_a[1])
            c == total_score_x5(r.eval_c[1])
        IN /\ r.selected_model \in {"A (Initial)", "C (Optimized)"}
           /\ r.selected_model = "C (Optimized)" =>
                c > a /\ r.final_translation = r.translation_c
           /\ c <= a =>
                r.selected_model = "A (Initial)" /\ r.final_translation = r.translation_a

\* One segment was compared with a tie and kept the initial translation,
\* another was compared, scored higher and took the optimized one.
C4_Witness ==
  /\ Returned
  /\ \E i \in Ids :
       /\ tasks["evaluate_2"][i].st = "ok"
       /\ total_score_x5(final_results[i].eval_c[1]) = total_score_x5(final_results[i].eval_a[1])
       /\ final_results[i].selected_model = "A (Initial)"
       /\ final_results[i].translation_c /= final_results[i].translation_a
  /\ \E j \in Ids :
       /\ tasks["evaluate_2"][j].st = "ok"
       /\ final_results[j].selected_model = "C (Optimized)"

\* C5: a segment that is not simple and reaches selection without eval_a or
\* without eval_c gets all-zero scores in its place, the initial translation
\* as final translation and the tag A (Initial).
C5_MissingEvaluationSelectsInitial ==
  [][ (pc = "evaluate_2" /\ pc' = "returned") =>
        \A i \in Ids :
          (/\ ~Skipped(results_map[i])
           /\ (results_map[i].eval_a = None \/ results_map[i].eval_c = None)) =>
            /\ results_map[i].eval_a = None => AllScores(final_results'[i].eval_a[1], 0)
            /\ results_map[i].eval_c = None => AllScores(final_results'[i].eval_c[1], 0)
            /\ final_results'[i].final_translation = results_map[i].translation_a
            /\ final_results'[i].selected_model = "A (Initial)" ]_vars

\* C6: when every translator call for a segment that is neither simple nor
\* cached raised, in Translate and, if it ran for it, in Repair, the result
\* returned for the segment has the original text as final translation and
\* all-zero scores.
C6_FailedTranslationFallsBackToOriginal ==
  Returned =>
    \A i \in Ids :
      (/\ tasks["translate"][i].st = "lost"
       /\ tasks["repair"][i].st \in {"none", "lost"}) =>
        /\ final_results[i].final_translation = segments[i].original_text
        /\ AllScores(final_results[i].eval_a[1], 0)
        /\ AllScores(final_results[i].eval_c[1], 0)

\* C7: an invocation of a task function calls its client at most three
\* times: a task still running has seen fewer than three calls raise, each
\* call is one more; it makes no call after one that returned; it fails
\* only when the third call raises; and collecting a failed task leaves the
\* segment's result as it was.
C7_AtMostThreeAttempts ==
  /\ [](\A s \in Stages : \A i \in Ids : tasks[s][i].attempts < 3)
  /\ [][\A s \in Stages : \A i \in Ids :
          LET t == tasks[s][i]
              u == tasks'[s][i]
          IN /\ (t.st = "run" /\ u.st = "run") => u.attempts \in {t.attempts, t.attempts + 1}
             /\ (t.st = "run" /\ u.st = "exh") => t.attempts + 1 = 3
             /\ t.st = "ret" => u \in {t, [st |-> "ok", attempts |-> 0, val |-> << >>]}
             /\ t.st = "exh" => u \in {t, [st |-> "lost", attempts |-> 0, val |-> << >>]}
             /\ (t.st = "exh" /\ u.st = "lost") => results_map'[i] = results_map[i]]_vars

\* A translation task has failed and been collected, leaving translation_a
\* unset, a sibling is at its third attempt after two calls that raised, and
\* a third has returned.
C7_Witness ==
  /\ \E i \in Ids : tasks["translate"][i].st = "lost" /\ results_map[i].translation_a = Empty
  /\ \E s \in Stages : \E i \in Ids : tasks[s][i].st = "run" /\ tasks[s][i].attempts = 2
  /\ \E s \in Stages : \E i \in Ids : tasks[s][i].st = "ok"

\* The response text is something _parse_evaluation can read: after the
\* fence is stripped it is a JSON object whose scores all convert to int.
Readable(text) ==
  /\ JsonLoads(StripFence(text)).ok
  /\ ScoresParse(JsonLoads(StripFence(text)).val)

\* C8: _parse_evaluation returns for every response text; for a response
\* that cannot be read the result has five zero scores and the raw response
\* text as suggestions.
C8_UnparseableKeepsRawText ==
  (parse_result /= None /\ ~Readable(parse_text)) =>
    /\ AllScores(parse_result[1], 0)
    /\ parse_result[1].suggestions = parse_text

\* The stages in their order.
StageOrder == <<"translate", "repair", "evaluate_1", "optimize", "evaluate_2">>

\* C9: while a task of a stage has been submitted, every task of each
\* earlier stage has completed and been collected; selection has run only
\* when every task has; and once a task of Evaluate-1 exists the cache file
\* holds the cache as Translate and Repair left it.
C9_StagesAreBarriers ==
  /\ \A a \in 1..5 : \A b \in (a + 1)..5 :
       (\E i \in Ids : tasks[StageOrder[b]][i].st /= "none") =>
         \A j \in Ids : tasks[StageOrder[a]][j].st \in {"none", "ok", "lost"}
  /\ Returned => \A s \in Stages : \A i \in Ids : tasks[s][i].st \in {"none", "ok", "lost"}
  /\ (\E i \in Ids : tasks["evaluate_1"][i].st /= "none") => cache_file = cache

\* An Evaluate-1 task is running after a translation of this run was put in
\* the cache, beside a sibling whose translation was repaired.
C9_Witness ==
  /\ \E i \in Ids : tasks["evaluate_1"][i].st = "run" /\ tasks["translate"][i].st = "ok"
  /\ \E j \in Ids : tasks["repair"][j].st \in {"ok", "lost"}
  /\ cache /= {}
  /\ Len(segments) = 2

\* C10: when the run has ended after some task failed, every segment none
\* of whose own tasks failed has its WorkflowResult, the one selection
\* makes of its own fields.
C10_FailureLeavesSiblingsAlone ==
  pc \in {"returned", "raised"} =>
    \A i \in Ids :
      ~SomeTaskFailed(i) =>
        /\ i \in DOMAIN final_results
        /\ final_results[i] = Select(results_map[i])

\* ---- what a run with function clients returns, segment by segment
\* The outcome of the submit loop of stage 1 for segment i.
ExpectedDecision(i) ==
  LET seg == segments[i]
      key == CacheKey(seg.original_text, source_lang, target_lang)
      loaded == cache_loaded[1]
  IN IF IsSimple(seg.original_text) THEN "simple"
     ELSE IF CacheHas(loaded, key) /\ Strip(CacheGet(loaded, key)) /= Strip(seg.original_text)
     THEN "cached"
     ELSE "submit"

\* The translate task of segment i returns (the translator does not raise).
ExpectedTranslated(i) == ExpectedDecision(i) = "submit" /\ clients.translator /= "raise"

ExpectedTranslation(i) == CHOOSE v \in TaskReturns("translate", i) : TRUE

ExpectedTranslationA(i) ==
  CASE ExpectedDecision(i) = "simple" -> segments[i].original_text
    [] ExpectedDecision(i) = "cached" ->
         CacheGet(cache_loaded[1],
                  CacheKey(segments[i].original_text, source_lang, target_lang))
    [] OTHER -> IF ExpectedTranslated(i) THEN ExpectedTranslation(i) ELSE Empty

\* Stage 1.5 runs the translate task of segment i once more.
ExpectedRepaired(i) ==
  /\ ExpectedDecision(i) /= "simple"
  /\ Strip(ExpectedTranslationA(i)) = Strip(segments[i].original_text)

\* Stage 2 gives segment i to the evaluator.
ExpectedEvaluated(i) == ExpectedDecision(i) /= "simple" /\ ~SameLanguage

ExpectedEvalA1(i) ==
  IF ExpectedDecision(i) = "simple"
  THEN Some(Perfect(<<"Simple segment, no evaluation needed.">>))
  ELSE IF SameLanguage
  THEN Some(Perfect(<<"Source and Target languages are the same.">>))
  ELSE IF clients.evaluator = "raise" THEN None
  ELSE Some(ParseEvaluation(CHOOSE r \in EvaluatorResponses(segments[i].original_text) : TRUE))

ExpectedOptimized(i) ==
  /\ ExpectedDecision(i) /= "simple"
  /\ ~NeedsNoOptimization(ExpectedEvalA1(i)[1])

ExpectedTranslationC(i) ==
  IF ~ExpectedOptimized(i) THEN ExpectedTranslationA(i)
  ELSE IF clients.optimizer = "raise" THEN Empty
  ELSE CHOOSE v \in OptimizerResponses(segments[i].original_text, ExpectedTranslationA(i)) : TRUE

ExpectedCompared(i) ==
  /\ ExpectedDecision(i) /= "simple"
  /\ ExpectedTranslationC(i) /= ExpectedTranslationA(i)

ExpectedComparison(i) ==
  ParseComparative(CHOOSE r \in ComparativeResponses(segments[i].original_text) : TRUE)

ExpectedResult(i) ==
  Select([segment_id |-> segments[i].id,
          original |-> segments[i].original_text,
          translation_a |-> ExpectedTranslationA(i),
          eval_a |-> IF ExpectedCompared(i) THEN Some(ExpectedComparison(i)[1])
                     ELSE ExpectedEvalA1(i),
          translation_c |-> ExpectedTranslationC(i),
          eval_c |-> IF ExpectedDecision(i) = "simple" THEN Some(Perfect(<<"Simple segment.">>))
                     ELSE IF ExpectedCompared(i) THEN Some(ExpectedComparison(i)[2])
                     ELSE ExpectedEvalA1(i),
          final_translation |-> Empty,
          selected_model |-> CASE ExpectedDecision(i) = "simple" -> "Skipped (Simple)"
                               [] ExpectedDecision(i) = "cached" -> "Cached"
                               [] OTHER -> ""])

\* The usage of n calls for each segment of S, added up.
RECURSIVE ExpectedTokens(_, _)
ExpectedTokens(S, n) ==
  IF S = {} THEN 0
  ELSE LET i == CHOOSE x \in S : TRUE
       IN n[i] * Len(segments[i].original_text) + ExpectedTokens(S \ {i}, n)

RECURSIVE ExpectedCalls(_, _)
ExpectedCalls(S, n) ==
  IF S = {} THEN 0
  ELSE LET i == CHOOSE x \in S : TRUE IN n[i] + ExpectedCalls(S \ {i}, n)

ExpectedUsage(S, n) ==
  TokenUsage(ExpectedTokens(S, n), ExpectedCalls(S, n),
             ExpectedTokens(S, n) + ExpectedCalls(S, n))

\* How many results each stage's loop collects for segment i.
ExpectedCollected ==
  [k \in UsageKeys |->
     [i \in Ids |->
        CASE k = "translation" ->
               (IF ExpectedTranslated(i) THEN (IF ExpectedRepaired(i) THEN 2 ELSE 1) ELSE 0)
          [] k = "evaluation_1" -> (IF ExpectedEvaluated(i) THEN 1 ELSE 0)
          [] k = "optimization" ->
               (IF ExpectedOptimized(i) /\ clients.optimizer /= "raise" THEN 1 ELSE 0)
          [] OTHER -> (IF ExpectedCompared(i) THEN 1 ELSE 0)]]

\* The cache after the run: what was loaded, and over it every translation
\* returned that differs from its original text.
ExpectedCache ==
  LET put == {i \in Ids : /\ ExpectedTranslated(i)
                          /\ Strip(ExpectedTranslation(i)) /= Strip(segments[i].original_text)}
      keyof(i) == CacheKey(segments[i].original_text, source_lang, target_lang)
  IN {e \in cache_loaded[1] : \A i \in put : e[1] /= keyof(i)}
     \cup {<<keyof(i), ExpectedTranslation(i)>> : i \in put}

\* C11: with clients whose response is a function of the prompt, whatever
\* the order in which the tasks of each stage complete and are collected,
\* run returns the same list of results (in the order of the segments), the
\* same usage report and leaves the same cache.
C11_CompletionOrderIsIrrelevant ==
  Returned =>
    /\ final_results = [i \in Ids |-> ExpectedResult(i)]
    /\ stage_usage = [k \in UsageKeys |-> ExpectedUsage(Ids, ExpectedCollected[k])]
    /\ total_usage.total_tokens =
         ExpectedUsage(Ids, ExpectedCollected["translation"]).total_tokens
         + ExpectedUsage(Ids, ExpectedCollected["evaluation_1"]).total_tokens
         + ExpectedUsage(Ids, ExpectedCollected["optimization"]).total_tokens
         + ExpectedUsage(Ids, ExpectedCollected["evaluation_2"]).total_tokens
    /\ total_usage.total_tokens = total_usage.prompt_tokens + total_usage.completion_tokens
    /\ cache = ExpectedCache
    /\ cache_file = ExpectedCache

\* A run has returned for two segments with different texts, each translated
\* and evaluated by tasks of its own, one of them optimized and compared, and
\* they ended with different selections.
C11_Witness ==
  /\ Returned
  /\ Len(segments) = 2
  /\ segments[1].original_text /= segments[2].original_text
  /\ \A i \in Ids : \A s \in {"translate", "evaluate_1"} : tasks[s][i].st = "ok"
  /\ \E i \in Ids : tasks["evaluate_2"][i].st = "ok"
  /\ clients.evaluator = "bytext"
  /\ final_results[1].selected_model /= final_results[2].selected_model
  /\ cache /= {}

\* The string the fixed translator's task returns for segment i.
FixedTranslation(i) == CHOOSE v \in TaskReturns("translate", i) : TRUE

\* C12: with a translator that returns a fixed string different from the
\* segment's text, a run that follows another over the same text and
\* languages makes no translator call for the segment, in Translate or in
\* Repair.
C12_SecondRunMakesNoTranslatorCall ==
  run_number >= 2 =>
    \A i \in Ids :
      FixedTranslation(i) /= segments[i].original_text => <<"translator", i>> \notin called

\* C12 as amended: the same, for a fixed string that still differs from the
\* text once both are trimmed.
C12_SecondRunMakesNoTranslatorCallWhenTrimmedDiffers ==
  run_number >= 2 =>
    \A i \in Ids :
      Strip(FixedTranslation(i)) /= Strip(segments[i].original_text) =>
        /\ <<"translator", i>> \notin called
        /\ tasks["translate"][i].st = "none" \/ pc = "start"
        /\ tasks["repair"][i].st = "none" \/ pc = "start"

\* A second run has gone past Translate and Repair and returned, for a
\* segment the first run had translated by a call, while a sibling whose
\* fixed translation differs from its text by whitespace alone was sent to
\* the translator again.
C12_Witness ==
  /\ run_number = 2
  /\ Returned
  /\ \E i \in Ids :
       /\ ~IsSimple(segments[i].original_text)
       /\ Strip(FixedTranslation(i)) /= Strip(segments[i].original_text)
       /\ CacheGet(cache_file, CacheKey(segments[i].original_text, source_lang, target_lang))
            = FixedTranslation(i)
       /\ final_results[i].translation_a = FixedTranslation(i)
  /\ \E j \in Ids : <<"translator", j>> \in called

\* C13: with a translator that returns a fixed string different from the
\* segment's text, the result a run that follows another over the same text
\* and languages returns for the segment has selected_model Cached.
C13_SecondRunIsTaggedCached ==
  (run_number >= 2 /\ Returned) =>
    \A i \in Ids :
      (/\ ~IsSimple(segments[i].original_text)
       /\ FixedTranslation(i) /= segments[i].original_text) =>
        final_results[i].selected_model = "Cached"

\* The translator echoed segment i's text in Translate and returned another
\* text in Repair: both tasks returned, and the repaired translation_a is
\* not the original text.
EchoedThenRepaired(i) ==
  /\ tasks["translate"][i].st = "ok"
  /\ tasks["repair"][i].st = "ok"
  /\ final_results[i].translation_a /= segments[i].original_text

\* C14: when the translator echoed a segment's text on its first call and
\* returned a different translation on the repair call, the result of the
\* completed run is tagged neither Skipped (Simple) nor Cached and its
\* final translation is not the original text.
C14_RepairedSegmentIsTranslated ==
  Returned =>
    \A i \in Ids :
      EchoedThenRepaired(i) =>
        /\ final_results[i].selected_model \notin {"Skipped (Simple)", "Cached"}
        /\ final_results[i].final_translation /= segments[i].original_text

\* C14 as amended: the final translation is not the original text unless
\* the optimized translation, equal to the original text, was selected.
C14_RepairedSegmentIsTranslatedUnlessReverted ==
  Returned =>
    \A i \in Ids :
      EchoedThenRepaired(i) =>
        /\ final_results[i].selected_model \in {"A (Initial)", "C (Optimized)"}
        /\ \/ final_results[i].final_translation /= segments[i].original_text
           \/ /\ final_results[i].selected_model = "C (Optimized)"
              /\ final_results[i].translation_c = segments[i].original_text

\* A run has returned the repaired translation of a segment as its final
\* translation, after the optimizer handed back the original text and the
\* comparative evaluation scored the two alike.
C14_Witness ==
  /\ Returned
  /\ clients.optimizer = "revert"
  /\ \E i \in Ids :
       /\ EchoedThenRepaired(i)
       /\ tasks["evaluate_2"][i].st = "ok"
       /\ final_results[i].translation_c = segments[i].original_text
       /\ final_results[i].selected_model = "A (Initial)"
       /\ final_results[i].final_translation = Ni

\* ------------------------------------------------ claims: apply_translations
\* The step in which apply_translations acts.
ApplyStep == pc = "apply" /\ pc' = "applied"

\* Every entry of the map is the original text of its segment, surrounding
\* whitespace aside.
IdentityMap ==
  \A k \in 1..Len(doc_segments) :
    doc_segments[k].id \in DOMAIN translations =>
      Strip(translations[doc_segments[k].id]) = Strip(doc_segments[k].original_text)

\* C15: apply_translations called with a map whose every value equals,
\* surrounding whitespace aside, the original text of its segment leaves
\* every paragraph as it was, runs and embedded objects alike; and whatever
\* the map holds, a paragraph whose segment has no entry is left as it was.
C15_IdentityMapLeavesDocumentUnchanged ==
  [][ ApplyStep =>
        /\ IdentityMap => doc' = doc
        /\ \A p \in 1..Len(doc) :
             (\A k \in SegmentsOf(p) : doc_segments[k].id \notin DOMAIN translations)
               => doc'[p] = doc[p] ]_vars

\* apply_translations has acted on two paragraphs, one with runs of two
\* formats and one with a formula, both with their own text between blanks
\* as the translation, and both are as they were.
C15_Witness ==
  /\ pc = "applied"
  /\ doc = <<ParaMath, ParaAB>>
  /\ DOMAIN translations = {1, 2}
  /\ translations[1] = Padded(doc_segments[1].original_text)
  /\ translations[2] = Padded(doc_segments[2].original_text)

\* The characters of the children that apply_translations appended to a
\* rebuilt paragraph, each with the font of its run; a copy of a formula
\* stands for the characters of its placeholder.
RECURSIVE NewChars(_, _)
NewChars(children, seg) ==
  IF children = << >> THEN << >>
  ELSE LET c == Head(children)
           key == CHOOSE x \in DOMAIN seg.math_elements : seg.math_elements[x] = c.obj
       IN (IF c.kind = "r"
           THEN [n \in 1..Len(c.text) |-> [ch |-> c.text[n], kind |-> "r", font |-> c.font]]
           ELSE [n \in 1..Len(key) |-> [ch |-> key[n], kind |-> "m", font |-> NoFont]])
          \o NewChars(Tail(children), seg)

\* C16: in a rebuilt paragraph the appended children spell the translation;
\* every character that lies in a matching block between the text of the
\* original runs and the translation is in a new run with the formatting of
\* the original run that character came from, and every character of the
\* translation outside the matching blocks has no copied formatting.
C16_MatchedTextKeepsItsRunFormat ==
  [][ ApplyStep =>
        \A s \in 1..Len(doc_segments) :
          Rebuilds(doc_segments[s]) =>
            LET seg == doc_segments[s]
                para == doc[seg.obj_ref]
                trans_text == translations[seg.id]
                runs == Runs(para)
                from == RunMapFrom(runs, 1)
                blocks == GetMatchingBlocks(OrigText(runs), trans_text)
                kept == Len(para) - Len(runs)
                out == NewChars(SubSeq(doc'[seg.obj_ref], kept + 1,
                                       Len(doc'[seg.obj_ref])), seg)
                In(n, pos) == blocks[n][2] < pos /\ pos <= blocks[n][2] + blocks[n][3]
            IN /\ Len(out) = Len(trans_text)
               /\ \A pos \in 1..Len(trans_text) :
                    /\ out[pos].ch = trans_text[pos]
                    /\ \A n \in 1..Len(blocks) :
                         In(n, pos) =>
                           /\ out[pos].kind = "r"
                           /\ out[pos].font
                                = runs[from[blocks[n][1] + pos - blocks[n][2]]].font
                    /\ (\A n \in 1..Len(blocks) : ~In(n, pos)) => out[pos].font = NoFont
      ]_vars

\* Runs 'A1' bold and 'B2' italic with the translation 'A1-X-B2' have become
\* bold 'A1', unformatted '-X-', italic 'B2'.
C16_Witness ==
  /\ pc = "applied"
  /\ doc_segments = ExtractSegments(<<ParaAB>>)
  /\ translations = (1 :> <<"A", "1", "-", "X", "-", "B", "2">>)
  /\ doc = << <<Run(<<"A", "1">>, Bold), Run(<<"-", "X", "-">>, NoFont),
               Run(<<"B", "2">>, Italic)>> >>

\* How many times the text t holds the token key.
Occurrences(t, key) ==
  Cardinality({i \in 1..(Len(t) - Len(key) + 1) : SubSeq(t, i, i + Len(key) - 1) = key})

\* Where the paragraph holds the formula obj, the original or a copy.
PositionsOf(para, obj) == {n \in 1..Len(para) : para[n].kind = "m" /\ para[n].obj = obj}

\* C17: when the translation of a segment differs from its original text
\* and holds a placeholder of the segment's math_elements exactly once, the
\* rebuilt paragraph holds the formula of that placeholder exactly once,
\* with the text of the translation before the token in front of it.
C17_PlaceholderOnceGivesObjectOnce ==
  [][ ApplyStep =>
        \A s \in 1..Len(doc_segments) :
          Rebuilds(doc_segments[s]) =>
            \A key \in DOMAIN doc_segments[s].math_elements :
              LET seg == doc_segments[s]
                  trans_text == translations[seg.id]
                  para == doc'[seg.obj_ref]
                  at == PositionsOf(para, seg.math_elements[key])
                  i == CHOOSE x \in 1..Len(trans_text) :
                         SubSeq(trans_text, x, x + Len(key) - 1) = key
              IN Occurrences(trans_text, key) = 1 =>
                   /\ Cardinality(at) = 1
                   /\ \A n \in at :
                        OrigText(Runs(SubSeq(para, 1, n - 1))) = SubSeq(trans_text, 1, i - 1)
      ]_vars

\* C18: when the translation of a segment differs from its original text
\* and does not hold a placeholder of the segment's math_elements, the
\* rebuilt paragraph does not hold the formula of that placeholder.
C18_PlaceholderOmittedDropsObject ==
  [][ ApplyStep =>
        \A s \in 1..Len(doc_segments) :
          Rebuilds(doc_segments[s]) =>
            \A key \in DOMAIN doc_segments[s].math_elements :
              Occurrences(translations[doc_segments[s].id], key) = 0 =>
                PositionsOf(doc'[doc_segments[s].obj_ref],
                            doc_segments[s].math_elements[key]) = {}
      ]_vars

\* ------------------------------------- claims: the comparative evaluation
\* The response text is something the parsing of _evaluate_comparative_task
\* can read: after the fence is stripped it is a JSON object whose model_a
\* and model_c, where present, are objects whose scores all convert to int.
ReadableComparative(text) ==
  LET data == JsonLoads(StripFence(text))
  IN /\ data.ok
     /\ data.val.t = "obj"
     /\ ScoresParse(Get(data.val, "model_a", JObj([k \in {} |-> JNull])))
     /\ ScoresParse(Get(data.val, "model_c", JObj([k \in {} |-> JNull])))

\* C19: the parsing of the comparative evaluation returns for every
\* response text; for a response that cannot be read both results have five
\* zero scores and the raw response text as suggestions.
C19_ComparativeUnparseableKeepsRawText ==
  (comparative_result /= None /\ ~ReadableComparative(parse_text)) =>
    \A n \in 1..2 :
      /\ AllScores(comparative_result[1][n], 0)
      /\ comparative_result[1][n].suggestions = parse_text

\* ------------------------------------------- claims: who writes shared state
\* A step of a worker: an attempt of a running task ends.
WorkerStep ==
  \E s \in Stages : \E i \in Ids :
    tasks[s][i].st = "run" /\ tasks'[s][i] /= tasks[s][i]

\* A step of the thread that executes run in which it takes the returned
\* value of a task.
CollectStep ==
  \E s \in Stages : \E i \in Ids :
    tasks[s][i].st = "ret" /\ tasks'[s][i].st = "ok" /\ pc = s

\* C20: a step of a worker task leaves the cache, the cache file, the
\* result map and the token counters as they are; the cache and the token
\* counters change only when the thread that executes run takes a task's
\* returned value (or loads the cache as run begins); the cache file is
\* written only on leaving the Translate stage and on leaving the Repair
\* stage, never while a task is taken.
C20_OnlyTheOrchestratorWrites ==
  [][ /\ WorkerStep =>
           UNCHANGED <<cache, cache_file, results_map, total_usage, stage_usage>>
      /\ (cache' /= cache \/ total_usage' /= total_usage \/ stage_usage' /= stage_usage)
           => (CollectStep \/ pc = "start")
      /\ cache_file' /= cache_file =>
           /\ pc \in {"translate", "repair"}
           /\ pc' /= pc
           /\ StageDone(pc)
      /\ CollectStep => cache_file' = cache_file ]_vars

\* Stage 1.5 is running after stage 1 saved the cache: a repaired
\* translation has been taken and put in the cache, which the file does not
\* hold yet, and a sibling's task has returned and waits to be taken.
C20_Witness ==
  /\ pc = "repair"
  /\ cache /= cache_file
  /\ total_usage /= NoUsage
  /\ \E i \in Ids : tasks["repair"][i].st = "ok"
  /\ \E j \in Ids : tasks["repair"][j].st = "ret"

\* ----------------------------------------------------- claims: progress
\* Fractions are compared by cross-multiplication.
FractionLeq(x, y) == x.num * y.den <= y.num * x.den

\* C21: over one run every fraction passed to the progress callback lies in
\* [0, 1] and is no less than the fraction passed before it.
C21_ProgressIsMonotonic ==
  [][ progress' /= << >> =>
        /\ 0 <= progress'[1].num
        /\ progress'[1].num <= 100 * progress'[1].den
        /\ progress /= << >> => FractionLeq(progress[1], progress'[1]) ]_vars

\* A run with a simple segment and a repaired one has reached its last
\* report.
C21_Witness ==
  /\ pc = "returned"
  /\ progress /= << >>
  /\ \E i \in Ids : Skipped(results_map[i])
  /\ \E j \in Ids : tasks["repair"][j].st \in {"ok", "lost"}

\* The boundaries of the stages that report every completed task.
StageBounds ==
  [translate |-> <<0, 30>>, evaluate_1 |-> <<35, 55>>,
   optimize |-> <<55, 75>>, evaluate_2 |-> <<75, 95>>]

\* C22: in Translate, Evaluate-1, Optimize and Evaluate-2, the fraction
\* reported when k of the n tasks submitted to the stage have completed is
\* stage_start + (k / n) * (stage_end - stage_start); when the last task of
\* the stage completes it is the end boundary of the stage.
C22_ProgressInterpolatesOverSubmittedTasks ==
  [][ \A s \in DOMAIN StageBounds :
        (pc = s /\ progress_callback /\ TakenIn(s)' = TakenIn(s) + 1) =>
          LET expected == Fraction(StageBounds[s][1], StageBounds[s][2],
                                   TakenIn(s) + 1, SubmittedTo(s))
          IN /\ progress' /= << >>
             /\ FractionLeq(progress'[1], expected)
             /\ FractionLeq(expected, progress'[1]) ]_vars

\* C23: when a run with a progress callback has returned, the fraction last
\* passed to the callback is 1.
C23_CompletedRunReportsOne ==
  (pc = "returned" /\ progress_callback) =>
    /\ progress /= << >>
    /\ progress[1].num = 100 * progress[1].den

\* ------------------------------------------------------- claims: scores
\* The five scores of an EvaluationResult.
ScoresIn(e) == {e.accuracy, e.fluency, e.consistency, e.terminology, e.completeness}

\* C24: every EvaluationResult of a WorkflowResult that run returns has each
\* of its five scores in 0..10.
C24_ScoresAreInRange ==
  Returned =>
    \A i \in 1..Len(final_results) :
      \A e \in {final_results[i].eval_a, final_results[i].eval_c} :
        e /= None => ScoresIn(e[1]) \subseteq 0..10

\* C25: five times the total_score of an EvaluationResult is the sum of its
\* five scores: total_score is their arithmetic mean.
C25_TotalScoreIsTheMean ==
  parse_result /= None =>
    total_score_x5(parse_result[1])
      = parse_result[1].accuracy + parse_result[1].fluency + parse_result[1].consistency
        + parse_result[1].terminology + parse_result[1].completeness

\* _parse_evaluation has returned a result whose scores differ from one
\* another: accuracy 5, the others 0.
C25_Witness ==
  /\ parse_result /= None
  /\ parse_result[1].accuracy = 5
  /\ parse_result[1].completeness = 0
  /\ total_score_x5(parse_result[1]) = 5

\* ------------------------------------------------- claims: the usage report
\* How many returned values the loops of this run have taken for segment i.
TakenOf(i) == Cardinality({s \in Stages : tasks[s][i].st = "ok"})

\* C26: the usage report of a run that returns counts the tokens of the
\* model calls whose results this run collected, and no others (none of an
\* earlier run on the same workflow); its total is the field-wise sum of the
\* four stage counters.
C26_UsageReportCoversOneRun ==
  Returned =>
    /\ total_usage = ExpectedUsage(Ids, [i \in Ids |-> TakenOf(i)])
    /\ total_usage = Add(Add(stage_usage["translation"], stage_usage["evaluation_1"]),
                         Add(stage_usage["optimization"], stage_usage["evaluation_2"]))

\* ------------------------------------------------ claims: extract_segments
\* C27: the segments extract_segments returns have pairwise distinct ids,
\* no two of them are of the same paragraph, and none has an empty trimmed
\* text; also when a merged cell gives the same paragraph under two column
\* indices and when two sections share a header.
C27_SegmentsAreDistinct ==
  pc = "extracted" =>
    /\ \A a, b \in 1..Len(doc_segments) :
         a /= b => /\ doc_segments[a].id /= doc_segments[b].id
                   /\ doc_segments[a].obj_ref /= doc_segments[b].obj_ref
    /\ \A a \in 1..Len(doc_segments) : Strip(doc_segments[a].original_text) /= Empty

\* extract_segments has walked a document with a merged cell and two
\* sections sharing a header, each with text: the cell's paragraph has its
\* segment under column 0 and the header's under section 0.
C27_Witness ==
  /\ pc = "extracted"
  /\ Len(tree.body.tables) = 1
  /\ tree.body.tables[1][1][1] = tree.body.tables[1][1][2]
  /\ Len(tree.sections) = 2
  /\ tree.sections[1] = tree.sections[2]
  /\ \E a \in 1..Len(doc_segments) :
       doc_segments[a].id = <<"t", "_", "0", "_", "r", "_", "0", "_", "c", "_", "0",
                              "_", "p", "_", "0">>
  /\ \E a \in 1..Len(doc_segments) :
       doc_segments[a].id = <<"s", "_", "0", "_", "h", "_", "p", "_", "0">>
  /\ \E a \in 1..Len(doc_segments) : doc_segments[a].id = <<"p", "_", "1">>

\* ---------------------------------------------- claims: _is_simple_segment
\* Of the characters tried: the digits, punctuation, currency and math
\* symbols and quote characters; and the alphabetic ones.
SymbolChars == {"4", ".", "$", "TIMES", "LDQUO"}
AlphabeticChars == {"H"}

\* C28: is_simple is true for every text that, once trimmed, is empty, is
\* one placeholder token, or is made only of digits, punctuation, currency
\* and math symbols and quote characters; and it is false for every text
\* that has an alphabetic character.
C28_SimpleIsNonAlphabetic ==
  simple_result /= None =>
    LET t == Strip(simple_text)
    IN /\ ( \/ t = Empty
            \/ (Len(t) = 3 /\ t[1] = "{{MATH_" /\ t[2] \in Digits /\ t[3] = "}}")
            \/ \A k \in 1..Len(t) : t[k] \in SymbolChars )
           => simple_result[1]
       /\ (\E k \in 1..Len(t) : t[k] \in AlphabeticChars) => ~simple_result[1]

\* ------------------------------------------------- claims: Optimize, Evaluate-2
\* The segment is not simple and its Evaluate-1 total score is below 9.5.
WantsOptimization(i) ==
  /\ ~IsSimple(segments[i].original_text)
  /\ results_map[i].eval_a /= None
  /\ 2 * total_score_x5(results_map[i].eval_a[1]) < 95

\* C29: in Optimize, the optimizer is called for a segment if and only if
\* the segment is not simple and its Evaluate-1 total score is below 9.5;
\* for every other segment translation_c is set to translation_a and no
\* optimizer call is made.
C29_OptimizerCalledIffBelowThreshold ==
  [][ (pc = "evaluate_1" /\ pc' /= "evaluate_1") =>
        \A i \in Ids :
          /\ tasks'["optimize"][i].st /= "none" <=> WantsOptimization(i)
          /\ ~WantsOptimization(i) =>
                results_map'[i].translation_c = results_map'[i].translation_a ]_vars

\* C30: in Evaluate-2, exactly one comparative evaluation task is issued
\* for each segment on which the optimizer was called in Optimize, whatever
\* text the optimizer returned, and none for the segments whose
\* optimization was skipped, for which eval_c is a copy of eval_a.
C30_ComparativeTaskPerOptimizedSegment ==
  [][ (pc = "optimize" /\ pc' /= "optimize") =>
        \A i \in Ids :
          /\ tasks'["evaluate_2"][i].st /= "none" <=> tasks["optimize"][i].st /= "none"
          /\ tasks["optimize"][i].st = "none" =>
                results_map'[i].eval_c = results_map'[i].eval_a ]_vars

\* ------------------------------------------------------------ claims: Repair
\* C31: Repair resubmits to the translate task exactly the non-simple
\* segments whose accepted translation after Translate, once trimmed, equals
\* the trimmed original text, each once; a repair task that returns
\* overwrites translation_a; and a segment's translate task is started at
\* most twice in a run, once in Translate and once in Repair.
C31_RepairResubmitsEchoedSegmentsOnce ==
  [][ /\ (pc = "translate" /\ pc' /= "translate") =>
           \A i \in Ids :
             tasks'["repair"][i].st = "run" <=>
               /\ ~IsSimple(segments[i].original_text)
               /\ Strip(results_map[i].translation_a) = Strip(segments[i].original_text)
      /\ \A i \in Ids :
           (tasks["repair"][i].st = "ret" /\ tasks'["repair"][i].st = "ok") =>
             results_map'[i].translation_a = tasks["repair"][i].val
      /\ \A s \in {"translate", "repair"}, i \in Ids :
           (tasks[s][i].st /= "run" /\ tasks'[s][i].st = "run") =>
             /\ tasks[s][i].st = "none"
             /\ pc = IF s = "translate" THEN "start" ELSE "translate" ]_vars

\* A segment whose translator echoed it in Translate has been repaired.
C31_Witness ==
  /\ pc = "repair"
  /\ \E i \in Ids :
       /\ tasks["translate"][i].st = "ok"
       /\ tasks["repair"][i].st = "ok"
       /\ results_map[i].translation_a = Ni

\* ------------------------------------------------------------- claims: cache
KeyOf(i) == CacheKey(segments[i].original_text, source_lang, target_lang)

\* C32: a cache entry is accepted as a segment's translation only if its
\* value, trimmed, differs from the trimmed original text; a hit with an
\* identical value is ignored and the segment is submitted to the
\* translator; and no entry written to the cache during a run has a value
\* that, trimmed, equals the trimmed original text of its segment.
C32_CacheNeverHoldsNorServesEchoes ==
  [][ /\ (pc = "start" /\ pc' /= "start") =>
           \A i \in Ids :
             /\ results_map'[i].selected_model = "Cached" =>
                  /\ CacheHas(cache_file, KeyOf(i))
                  /\ results_map'[i].translation_a = CacheGet(cache_file, KeyOf(i))
                  /\ Strip(results_map'[i].translation_a) /= Strip(segments[i].original_text)
             /\ ( /\ ~IsSimple(segments[i].original_text)
                  /\ CacheHas(cache_file, KeyOf(i))
                  /\ Strip(CacheGet(cache_file, KeyOf(i))) = Strip(segments[i].original_text) )
                => tasks'["translate"][i].st = "run"
      /\ pc /= "start" =>
           \A e \in cache' \ cache :
             \E i \in Ids : e[1] = KeyOf(i) /\ Strip(e[2]) /= Strip(segments[i].original_text) ]_vars

\* The file held the segment's own text, padded, under its key; the segment
\* went to the translator and the translation has been put in the cache.
C32_Witness ==
  \E i \in Ids :
    /\ CacheHas(cache_file, KeyOf(i))
    /\ CacheGet(cache_file, KeyOf(i)) /= segments[i].original_text
    /\ Strip(CacheGet(cache_file, KeyOf(i))) = Strip(segments[i].original_text)
    /\ tasks["translate"][i].st = "ok"
    /\ <<KeyOf(i), Ni>> \in cache

\* -------------------------------------------------------- claims: Evaluate-1
\* The submit loop of Evaluate-1 has just run.
Evaluate1Submitted == pc \in {"translate", "repair"} /\ pc' = "evaluate_1"

RECURSIVE Spelled(_, _)
Spelled(children, seg) ==
  IF children = << >> THEN Empty
  ELSE (IF Head(children).kind = "r" THEN Head(children).text
        ELSE IF Head(children).copy
        THEN CHOOSE key \in DOMAIN seg.math_elements :
               seg.math_elements[key] = Head(children).obj
        ELSE Empty)
       \o Spelled(Tail(children), seg)

\* C39: after apply_translations rewrites a paragraph, the texts of the
\* emitted runs and the placeholder tokens of the re-inserted formulas, in
\* order, spell the translation given for the segment, as it was given.
C39_RebuildSpellsTheTranslation ==
  [][ ApplyStep =>
        \A s \in 1..Len(doc_segments) :
          Rebuilds(doc_segments[s]) =>
            Spelled(doc'[doc_segments[s].obj_ref], doc_segments[s])
              = translations[doc_segments[s].id] ]_vars

\* A paragraph with a formula has been rebuilt from a translation that
\* holds the placeholder between new text and text of the original.
C39_Witness ==
  /\ pc = "applied"
  /\ \E s \in 1..Len(doc_segments) :
       /\ doc_segments[s].math_elements /= << >>
       /\ Rebuilds(doc_segments[s])
       /\ translations[doc_segments[s].id] = <<"c">> \o MathKey(0) \o <<"-", "X", "-">>
       /\ \E n \in 1..Len(doc[doc_segments[s].obj_ref]) :
            doc[doc_segments[s].obj_ref][n].kind = "m" /\ doc[doc_segments[s].obj_ref][n].copy

\* ------------------------------------------------- claims: failed optimizer
\* C36: if the optimizer task of a segment fails after exhausting its
\* retries, the result of the run for that segment has final_translation
\* equal to translation_a and selected_model "A (Initial)", whatever scores
\* the evaluator returns afterwards.
C36_FailedOptimizerSelectsInitial ==
  Returned =>
    \A i \in Ids :
      tasks["optimize"][i].st = "lost" =>
        /\ final_results[i].final_translation = final_results[i].translation_a
        /\ final_results[i].selected_model = "A (Initial)"

\* ------------------------------------------------------- claims: the tags
\* C38: on return from run, every result has selected_model in
\* {"Skipped (Simple)", "A (Initial)", "C (Optimized)"}, and its
\* final_translation is translation_c when the tag is "C (Optimized)" and
\* translation_a otherwise.
C38_TagTellsTheFinalTranslation ==
  Returned =>
    \A i \in Ids :
      LET r == final_results[i]
      IN /\ r.selected_model \in {"Skipped (Simple)", "A (Initial)", "C (Optimized)"}
         /\ r.final_translation = IF r.selected_model = "C (Optimized)"
                                  THEN r.translation_c ELSE r.translation_a

\* A run has returned a segment taken from the cache with the initial
\* translation, next to a skipped one.
C38_Witness ==
  /\ Returned
  /\ \E i, j \in Ids :
       /\ CacheUsable(segments[i])
       /\ final_results[i].selected_model = "A (Initial)"
       /\ final_results[i].translation_c /= final_results[i].translation_a
       /\ final_results[j].selected_model = "Skipped (Simple)"

\* --------------------------------------------------- claims: the empty list
\* C40: run called with an empty segment list returns an empty result list
\* and a usage report without raising, whether or not a progress callback
\* is supplied.
C40_EmptyListReturns ==
  (Len(segments) = 0 /\ pc /= "start") =>
    /\ pc \notin {"raising", "raised"}
    /\ Returned => final_results = << >>

\* ------------------------------------------------- claims: the placeholders
\* C37: the final_translation of every segment holds no placeholder token
\* {{MATH_N}} that is absent from the segment's placeholder map, whatever
\* text the translator and the optimizer return.
C37_FinalTranslationHasNoForeignPlaceholder ==
  Returned =>
    \A i \in Ids :
      LET t == final_results[i].final_translation
      IN \A k \in 1..Len(t) :
           PlaceholderAt(t, k) > 0 =>
             SubSeq(t, k, k + PlaceholderAt(t, k) - 1) \in segments[i].math_elements

\* ------------------------------------------------ claims: save_bilingual
\* What save_bilingual appended to the paragraph of segment k, after the
\* line break.
AppendedFor(k) ==
  LET p == doc_segments[k].obj_ref
  IN SubSeq(doc_copy[p], Len(doc[p]) + 2, Len(doc_copy[p]))

\* The evaluation of the selected translation of a result.
SelectedEvaluation(r) == IF r.selected_model = "C (Optimized)" THEN r.eval_c[1] ELSE r.eval_a[1]

C35_SameTextAppendsNothing ==
  pc = "saved" =>
    \A k \in 1..Len(doc_segments) :
      Strip(final_results[k].final_translation) = Strip(doc_segments[k].original_text) =>
        Len(doc_copy[doc_segments[k].obj_ref]) = Len(doc[doc_segments[k].obj_ref])

====
